---- MODULE Spec2Model ----
(***************************************************************************)
(* Dispatch core of the marketing agent: the publish fan-out of            *)
(* SocialPlugin (social-plugin.ts), the HTTP retry of SocialCore           *)
(* (social-core.ts) and the request retry of LlmCore (llm-core.ts).        *)
(***************************************************************************)
EXTENDS Integers, Sequences, FiniteSets, TLC

\* ------------------------------------------------------------------ bounds
\* configured retryAttempts values explored: 0 (unset) .. MaxRetryCfg
MaxRetryCfg == 2
\* an adapter script fails at most this many times before it succeeds
MaxFailures == 1
\* addPlatform / removePlatform calls explored per run
MaxMutations == 2

\* LlmCore config.maxRetries values explored: 0 .. MaxLlmRetries
MaxLlmRetries == 3
\* requests issued on one LlmCore instance
MaxRequests == 2
\* SocialCore config.maxRetries values explored: 0 (unset) .. MaxHttpRetryCfg
MaxHttpRetryCfg == 3
\* askWithRetry maxRetries arguments explored: 0 .. MaxAskRetries
MaxAskRetries == 3
\* HTTP error statuses explored: 400 .. MaxClientStatus and 500 .. MaxServerStatus
MaxClientStatus == 451
MaxServerStatus == 511
\* addPlatform/removePlatform calls followed after a construction
MaxRegistryOps == 2
\* ContentManager.publish calls followed
MaxCmCalls == 4
\* NodeCronPlugin calls followed
MaxCronOps == 3

\* Entries of a schedule file.
MaxSchedule == 2

\* -------------------------------------------------------- program constants
\* config.retryAttempts || 3
DefaultRetryAttempts == 3
\* retry.operation({factor: 2, minTimeout: retryDelay = 1000, maxTimeout: 10000})
RetryFactor == 2
LlmRetryDelay == 1000
LlmMaxTimeout == 10000
\* config.maxRetries || 3 (SocialCore)
DefaultHttpMaxRetries == 3
\* protected retryDelay: number = 1000 (SocialCore)
SocialCoreRetryDelay == 1000
\* Math.min(1000 * Math.pow(2, attempt - 1), 10000) (askWithRetry)
AskBaseDelay == 1000
AskDelayFactor == 2
AskMaxDelay == 10000
\* post.content.length > 5000 (validatePost)
MaxContentLength == 5000
\* post.media.length > 10 (validatePost)
MaxMediaFiles == 10

\* Three of the five PlatformType members.
Platforms == {"facebook", "instagram", "twitter"}

VARIABLES
  platforms,            \* SocialPlugin.platforms: the Map's keys in insertion order
  retryAttempts,        \* SocialPlugin.retryAttempts
  pc,                   \* position of the call in flight
  mode,                 \* "publish" | "single" (publishToPlatform) | "none"
  cursor,               \* Map iterator of publish: entries already passed
  cur,                  \* platformType being dispatched
  attempt,              \* publishWithRetry's attempt parameter
  results,              \* publish: results map, name -> "none" | "ok" | "fail"
  errors,               \* publish: key set of the errors map
  successfulPlatforms,  \* publish: array
  failedPlatforms,      \* publish: array
  totalAttempts,        \* publish: counter
  success,              \* PublishResult.success
  singleResult,         \* publishToPlatform: how the promise settled
  beh,                  \* per target: the adapter's script for this call
  calls,                \* per target: platform.publish invocations in this call
  startNames,           \* registry names when the call started
  mutated,              \* registry changed while the call was suspended
  everOk,               \* some adapter returned success=true in this call
  muts,                 \* addPlatform/removePlatform calls so far
  pending,              \* per target: platform.publish promises not yet settled
  slept,                \* delays slept in the current publishWithRetry sequence
  platformSuccess,      \* per target: 'platform:success' events emitted in this call
  platformError,        \* per target: 'platform:error' events emitted in this call
  completeEvents,       \* payloads of the 'publish:complete' events emitted
  \* LlmCore (one provider instance)
  maxRetries,           \* LlmCore.config.maxRetries
  opTimeouts,           \* operation._timeouts: the delays not yet consumed
  opAttempts,           \* operation._attempts
  opFn,                 \* operation._fn: the request whose callback it holds
  timers,               \* retry timers set and not yet fired
  reqState,             \* per request: "new" | "pending" | "resolved" | "rejected"
  inflight,             \* per request: requestFn() calls awaiting their response
  hist,                 \* per request: the responses its requestFn() calls got
  rejRetryable,         \* per request: retryable flag of the error it rejected with
  settledAt,            \* per request: Len(hist) when its promise settled
  reqStart,             \* per request: the operation as makeRequest found it
  \* SocialCore.makeRequest (one call)
  hMaxRetries,          \* SocialCore.maxRetries
  hPc,                  \* "idle" | "fetching" | "delaying" | "resolved" | "rejected"
  hRetryCount,          \* makeRequest's retryCount parameter
  hHist,                \* the responses fetch() produced, in order
  hDelays,              \* the delays makeRequest slept, in order
  \* LlmPlugin (one ask or askWithRetry call)
  hasFallback,          \* LlmPlugin.fallbackProvider is set
  aMode,                \* "ask" | "retry" (askWithRetry) | "none"
  aMaxRetries,          \* askWithRetry's maxRetries parameter
  aAttempt,             \* askWithRetry's loop variable
  aPc,                  \* "idle" | "primary" | "fallback" | "sleeping" | "resolved" | "rejected"
  pHist,                \* outcomes of the provider.ask calls, in order
  fHist,                \* outcomes of the fallbackProvider.ask calls, in order
  aErr,                 \* ask: llmError, the error caught from the primary
  aLast,                \* askWithRetry: lastError
  aOutcome,             \* what the call's promise settled with
  aDelays,              \* the delays askWithRetry slept, in order
  \* LlmCore.createLlmError (one raw error)
  rawCode,              \* error.code
  rawStatus,            \* error.response?.status, 0 when there is no response
  classified,           \* the LlmError objects created, with their retryable flag
  \* SocialPlugin registry management (construction, addPlatform, removePlatform)
  rPc,                  \* "off" | "new" | "ready" | "failed": the constructor call
  rConfig,              \* config.platforms: its entries [name, kind] in key order
  registry,             \* SocialPlugin.platforms: the Map's entries [name, adapter]
  rCreated,             \* per name: adapters constructed so far (object identity)
  rLastOn,              \* per name: the last successful operation on it
  rLast,                \* the last addPlatform/removePlatform call and how it ended
  rOps,                 \* addPlatform/removePlatform calls so far
  \* SocialPlugin.validatePost and an adapter's own check of the payload
  vPc,                  \* "off" | "idle" | "validated" | "checked"
  vPost,                \* the post: its content and its number of media files
  vResult,              \* what validatePost returned: {valid, errors}
  vPublish,             \* the adapter whose publish checked the post, and its error
  \* One adapter's publish(post)
  pPc,                  \* "off" | "idle" | "running" | "done"
  pAdapter,             \* the adapter's platform type
  pCore,                \* the SocialCore the adapter runs on
  pPost,                \* the post it is given
  pStage,               \* the step of PublishStages it is waiting on
  pThrown,              \* the message of the error thrown inside publish, if any
  pResult,              \* how the promise of publish settled
  pEvents,              \* 'publish:success' / 'publish:error' events emitted
  \* ContentManager.publish
  cmPc,                 \* "off" | "idle" | "publishing"
  cmCursor,             \* SocialPlugin.publish: index of the target being published to
  cmSuccessful,         \* SocialPlugin.publish: successfulPlatforms.length
  cmReturns,            \* what each ContentManager.publish call returned, in order
  \* NodeCronPlugin
  cTasks,               \* tasks: the Map's keys in insertion order
  cEntries,             \* entries: the Map's values [id, cronTime] in insertion order
  cLast,                \* the last add/remove/stop call and the maps it found
  cOps,                 \* calls made on the plugin so far
  cLoading              \* load calls waiting for fs.readFile

socialVars == <<platforms, retryAttempts, pc, mode, cursor, cur, attempt, results,
                errors, successfulPlatforms, failedPlatforms, totalAttempts, success,
                singleResult, beh, calls, startNames, mutated, everOk, muts,
                pending, slept, platformSuccess, platformError, completeEvents>>

llmVars == <<maxRetries, opTimeouts, opAttempts, opFn, timers, reqState, inflight,
             hist, rejRetryable, settledAt, reqStart>>

httpVars == <<hMaxRetries, hPc, hRetryCount, hHist, hDelays>>

askVars == <<hasFallback, aMode, aMaxRetries, aAttempt, aPc, pHist, fHist, aErr, aLast,
             aOutcome, aDelays>>

clsVars == <<rawCode, rawStatus, classified>>

regVars == <<rPc, rConfig, registry, rCreated, rLastOn, rLast, rOps>>

valVars == <<vPc, vPost, vResult, vPublish>>

pubVars == <<pPc, pAdapter, pCore, pPost, pStage, pThrown, pResult, pEvents>>

cmVars == <<cmPc, cmCursor, cmSuccessful, cmReturns>>

cronVars == <<cTasks, cEntries, cLast, cOps, cLoading>>

extVars == <<pubVars, cmVars, cronVars>>

coreVars == <<socialVars, llmVars, httpVars, askVars, clsVars, regVars, valVars>>

vars == <<coreVars, extVars>>

\* ----------------------------------------------------------------- helpers
Range(s) == {s[i] : i \in 1..Len(s)}

RECURSIVE SumOver(_, _)
SumOver(f, S) == IF S = {} THEN 0
                 ELSE LET x == CHOOSE y \in S : TRUE IN f[x] + SumOver(f, S \ {x})

\* Sequences over S without repetition (a Map's key order).
DistinctSeqs(S) == {s \in UNION {[1..n -> S] : n \in 0..Cardinality(S)} :
                      \A i, j \in 1..Len(s) : i # j => s[i] # s[j]}

IndexOf(s, x) == CHOOSE i \in 1..Len(s) : s[i] = x

RemoveAt(s, i) == [k \in 1..(Len(s) - 1) |-> IF k < i THEN s[k] ELSE s[k + 1]]

\* --------------------------------------------------------- adapter scripts
\* What one platform.publish(post) call does: resolve with success=true ("ok"),
\* resolve with success=false ("fail"), or reject ("throw").
Behaviours == {[kind |-> "ok", failures |-> 0]}
              \cup {[kind |-> k, failures |-> f] : k \in {"returns", "throws"},
                                                   f \in 1..MaxFailures}
              \cup {[kind |-> k, failures |-> 0] : k \in {"returnsAlways", "throwsAlways"}}

\* Outcome of the k-th invocation of an adapter with script b.
AdapterOutcome(b, k) ==
  CASE b.kind = "ok"            -> "ok"
    [] b.kind = "returns"       -> IF k <= b.failures THEN "fail" ELSE "ok"
    [] b.kind = "throws"        -> IF k <= b.failures THEN "throw" ELSE "ok"
    [] b.kind = "returnsAlways" -> "fail"
    [] b.kind = "throwsAlways"  -> "throw"

NoBehaviour == [kind |-> "ok", failures |-> 0]

\* ------------------------------------------------------------ constructor
\* this.retryDelay = config.retryDelay || 1000, with config.retryDelay unset
DefaultRetryDelay == 1000

\* this.retryAttempts = config.retryAttempts || 3
RetryAttemptsOf(cfg) == IF cfg = 0 THEN DefaultRetryAttempts ELSE cfg

NoResults == [t \in Platforms |-> "none"]
NoCalls == [t \in Platforms |-> 0]

InitSocial ==
  /\ platforms \in DistinctSeqs(Platforms)
  /\ \E cfg \in 0..MaxRetryCfg : retryAttempts = RetryAttemptsOf(cfg)
  /\ pc = "idle"
  /\ mode = "none"
  /\ cursor = 0
  /\ cur = "none"
  /\ attempt = 0
  /\ results = NoResults
  /\ errors = {}
  /\ successfulPlatforms = <<>>
  /\ failedPlatforms = <<>>
  /\ totalAttempts = 0
  /\ success = FALSE
  /\ singleResult = "none"
  /\ beh = [t \in Platforms |-> NoBehaviour]
  /\ calls = NoCalls
  /\ startNames = {}
  /\ mutated = FALSE
  /\ everOk = FALSE
  /\ muts = 0
  /\ pending = NoCalls
  /\ slept = <<>>
  /\ platformSuccess = NoCalls
  /\ platformError = NoCalls
  /\ completeEvents = <<>>

\* --------------------------------------------------------------- publish
\* The local variables of one publish call, as a record.
Locals == [results |-> results, errors |-> errors,
           successfulPlatforms |-> successfulPlatforms,
           failedPlatforms |-> failedPlatforms,
           totalAttempts |-> totalAttempts, escaped |-> FALSE]

FreshLocals == [results |-> NoResults, errors |-> {},
                successfulPlatforms |-> <<>>, failedPlatforms |-> <<>>,
                totalAttempts |-> 0, escaped |-> FALSE]

\* Lines 56-65: the response publishWithRetry resolved with is recorded.
RecordResponse(L, t, o) ==
  IF o = "ok"
  THEN [L EXCEPT !.results = [@ EXCEPT ![t] = "ok"],
                 !.successfulPlatforms = Append(@, t)]
  ELSE [L EXCEPT !.results = [@ EXCEPT ![t] = "fail"],
                 !.failedPlatforms = Append(@, t),
                 !.errors = @ \cup {t}]

PublishCatchRethrows(L, t) == [L EXCEPT !.escaped = TRUE]

PublishCatchNoResult(L, t) ==
  [L EXCEPT !.totalAttempts = @ + 1,
            !.failedPlatforms = Append(@, t),
            !.errors = @ \cup {t}]

\* Lines 67-79: the catch block of the loop body.
PublishCatch(L, t) ==
  [L EXCEPT !.totalAttempts = @ + 1,
            !.failedPlatforms = Append(@, t),
            !.errors = @ \cup {t},
            !.results = [@ EXCEPT ![t] = "fail"]]

OverallSuccessNoFailure(succ, failed) == Len(failed) = 0

\* Line 83: success: successfulPlatforms.length > 0
OverallSuccess(succ, failed) == Len(succ) > 0

ShouldRetryInclusive(att) == att <= retryAttempts

\* Line 120: if (attempt < this.retryAttempts)
ShouldRetry(att) == att < retryAttempts

\* Lines 117-119: a resolved platform.publish is returned, a rejected one is
\* caught.
Caught(o) == o = "throw"

\* Line 122: this.delay(this.retryDelay * attempt)
PublishRetryDelay(att) == DefaultRetryDelay * att

\* platform.publish(post) is invoked on target t (line 118); the call suspends.
\* pd: the promises pending once the caller's own await has settled.
Invoke(t, att, pd) ==
  /\ cur' = t
  /\ attempt' = att
  /\ calls' = [calls EXCEPT ![t] = @ + 1]
  /\ pending' = [pd EXCEPT ![t] = @ + 1]
  /\ pc' = "dispatch"

RetryStepNoDelay(pd) ==
  /\ Invoke(cur, attempt + 1, pd)
  /\ UNCHANGED slept

\* Lines 120-122: a retry is due; publishWithRetry suspends in this.delay.
RetryStep(pd) ==
  /\ pc' = "backoff"
  /\ pending' = pd
  /\ UNCHANGED <<cur, attempt, calls, slept>>

\* The script of a target is fixed when the call first reaches it.
ChooseBehaviour(t, cs) ==
  IF cs[t] = 0 THEN \E b \in Behaviours : beh' = [beh EXCEPT ![t] = b]
               ELSE beh' = beh

\* Lines 82-89: the PublishResult built from the locals.
PublishResultOf(L) ==
  [success |-> OverallSuccess(L.successfulPlatforms, L.failedPlatforms),
   results |-> L.results,
   errors |-> L.errors,
   totalAttempts |-> L.totalAttempts,
   successfulPlatforms |-> L.successfulPlatforms,
   failedPlatforms |-> L.failedPlatforms]

EmitCompleteNever(ev, R) == ev

\* Line 91: this.emit('publish:complete', publishResult)
EmitComplete(ev, R) == Append(ev, R)

\* Lines 50-55 and 82-92: the for-of loop reads the live Map: next entry after
\* the cursor, or the end of the loop and the PublishResult.
Continue(L, crs, cs, pd) ==
  /\ results' = L.results
  /\ errors' = L.errors
  /\ successfulPlatforms' = L.successfulPlatforms
  /\ failedPlatforms' = L.failedPlatforms
  /\ IF L.escaped
     THEN /\ pc' = "rejected"
          /\ totalAttempts' = L.totalAttempts
          /\ UNCHANGED <<cursor, cur, attempt, success, beh, slept, completeEvents>>
          /\ calls' = cs
          /\ pending' = pd
     ELSE IF crs < Len(platforms)
     THEN LET t == platforms[crs + 1] IN
          /\ cursor' = crs + 1
          /\ totalAttempts' = L.totalAttempts + 1
          /\ cur' = t
          /\ attempt' = 1
          /\ calls' = [cs EXCEPT ![t] = @ + 1]
          /\ pending' = [pd EXCEPT ![t] = @ + 1]
          /\ slept' = <<>>
          /\ ChooseBehaviour(t, cs)
          /\ pc' = "dispatch"
          /\ UNCHANGED <<success, completeEvents>>
     ELSE /\ totalAttempts' = L.totalAttempts
          /\ success' = OverallSuccess(L.successfulPlatforms, L.failedPlatforms)
          /\ completeEvents' = EmitComplete(completeEvents, PublishResultOf(L))
          /\ pc' = "done"
          /\ calls' = cs
          /\ pending' = pd
          /\ UNCHANGED <<cursor, cur, attempt, beh, slept>>

\* One publish or publishToPlatform call is followed per run; every registry
\* content it can start from is reached by Init and the registry actions.
NoCallInFlight == pc = "idle"

\* publish(post), lines 41-55, up to its first suspension.
PublishCall ==
  /\ UNCHANGED <<llmVars, httpVars, askVars, clsVars, regVars, valVars, extVars>>
  /\ NoCallInFlight
  /\ mode' = "publish"
  /\ startNames' = Range(platforms)
  /\ mutated' = FALSE
  /\ everOk' = FALSE
  /\ singleResult' = "none"
  /\ Continue(FreshLocals, 0, NoCalls, NoCalls)
  /\ UNCHANGED <<platforms, retryAttempts, muts, platformSuccess, platformError>>

IsConfiguredAlways(reg, t) == TRUE

\* Lines 99-101: this.platforms.get(platformType) found an adapter.
IsConfigured(reg, t) == t \in Range(reg)

\* publishToPlatform(platformType, post), lines 98-106.
PublishToPlatformCall(t) ==
  /\ UNCHANGED <<llmVars, httpVars, askVars, clsVars, regVars, valVars, extVars>>
  /\ NoCallInFlight
  /\ mode' = "single"
  /\ startNames' = Range(platforms)
  /\ mutated' = FALSE
  /\ everOk' = FALSE
  /\ results' = NoResults
  /\ errors' = {}
  /\ successfulPlatforms' = <<>>
  /\ failedPlatforms' = <<>>
  /\ totalAttempts' = 0
  /\ success' = FALSE
  /\ cursor' = 0
  /\ IF ~IsConfigured(platforms, t)
     THEN /\ pc' = "rejected"
          /\ singleResult' = "notConfigured"
          /\ cur' = t
          /\ attempt' = 0
          /\ calls' = NoCalls
          /\ pending' = NoCalls
          /\ UNCHANGED <<beh, slept>>
     ELSE /\ singleResult' = "none"
          /\ cur' = t
          /\ attempt' = 1
          /\ calls' = [NoCalls EXCEPT ![t] = 1]
          /\ pending' = [NoCalls EXCEPT ![t] = 1]
          /\ slept' = <<>>
          /\ ChooseBehaviour(t, NoCalls)
          /\ pc' = "dispatch"
  /\ UNCHANGED <<platforms, retryAttempts, muts, platformSuccess, platformError,
                 completeEvents>>

\* The events of one platform.publish call on the adapter registered as t:
\* the adapter emits 'publish:success' from logSuccess before it resolves with
\* success=true and 'publish:error' from logError before it resolves with
\* success=false (social-core.ts lines 154-165); the listeners of lines
\* 230-238 re-emit them as 'platform:success' and 'platform:error'. A publish
\* that rejects has passed neither.
AdapterEmits(t, o) ==
  /\ platformSuccess' = IF o = "ok" THEN [platformSuccess EXCEPT ![t] = @ + 1]
                        ELSE platformSuccess
  /\ platformError' = IF o = "fail" THEN [platformError EXCEPT ![t] = @ + 1]
                      ELSE platformError

\* The adapter's promise settles (publishWithRetry lines 117-127). A rejection
\* with a retry left is caught and the delay of line 122 is started in the
\* same continuation. Otherwise publishWithRetry returns or rethrows, and its
\* caller resumes in a later job: until then the call stays suspended.
AdapterSettles ==
  /\ UNCHANGED <<llmVars, httpVars, askVars, clsVars, regVars, valVars, extVars>>
  /\ pc = "dispatch"
  /\ LET o == AdapterOutcome(beh[cur], calls[cur])
         pd == [pending EXCEPT ![cur] = @ - 1]
     IN
     /\ AdapterEmits(cur, o)
     /\ everOk' = (everOk \/ o = "ok")
     /\ IF Caught(o) /\ ShouldRetry(attempt)
        THEN RetryStep(pd)
        ELSE /\ pc' = "resuming"
             /\ pending' = pd
             /\ UNCHANGED <<cur, attempt, calls, slept>>
  /\ UNCHANGED <<platforms, retryAttempts, mode, startNames, mutated, muts,
                 cursor, results, errors, successfulPlatforms, failedPlatforms,
                 totalAttempts, success, beh, singleResult, completeEvents>>

\* The caller of publishWithRetry resumes with what the retry sequence
\* settled with: publish at line 56 (lines 57-80, then the next entry of
\* this.platforms), publishToPlatform at line 105.
CallerResumes ==
  /\ UNCHANGED <<llmVars, httpVars, askVars, clsVars, regVars, valVars, extVars>>
  /\ pc = "resuming"
  /\ LET o == AdapterOutcome(beh[cur], calls[cur]) IN
     IF mode = "publish"
     THEN /\ Continue(IF Caught(o) THEN PublishCatch(Locals, cur)
                                   ELSE RecordResponse(Locals, cur, o),
                      cursor, calls, pending)
          /\ UNCHANGED singleResult
     ELSE /\ singleResult' = IF Caught(o) THEN "thrown" ELSE o
          /\ pc' = IF Caught(o) THEN "rejected" ELSE "done"
          /\ UNCHANGED <<cursor, cur, attempt, results, errors,
                         successfulPlatforms, failedPlatforms, totalAttempts,
                         success, beh, calls, slept, completeEvents, pending>>
  /\ UNCHANGED <<platforms, retryAttempts, mode, startNames, mutated, muts,
                 everOk, platformSuccess, platformError>>

\* The delay of line 122 elapses and line 123 re-enters publishWithRetry.
BackoffElapses ==
  /\ UNCHANGED <<llmVars, httpVars, askVars, clsVars, regVars, valVars, extVars>>
  /\ pc = "backoff"
  /\ slept' = Append(slept, PublishRetryDelay(attempt))
  /\ Invoke(cur, attempt + 1, pending)
  /\ UNCHANGED <<platforms, retryAttempts, mode, cursor, results, errors,
                 successfulPlatforms, failedPlatforms, totalAttempts, success,
                 singleResult, beh, startNames, mutated, everOk, muts,
                 platformSuccess, platformError, completeEvents>>

\* ------------------------------------------------------------- registry
\* The registry is changed before the call or while it is suspended; a change
\* after the promise settled cannot reach the settled result.
CallSettled == pc \in {"done", "rejected"}

\* addPlatform, lines 133-143: Map.set keeps the position of an existing key
\* and appends a new one.
AddPlatform(t) ==
  /\ UNCHANGED <<llmVars, httpVars, askVars, clsVars, regVars, valVars, extVars>>
  /\ muts < MaxMutations
  /\ ~CallSettled
  /\ muts' = muts + 1
  /\ platforms' = IF t \in Range(platforms) THEN platforms ELSE Append(platforms, t)
  /\ mutated' = (mutated \/ ~NoCallInFlight)
  /\ UNCHANGED <<retryAttempts, pc, mode, cursor, cur, attempt, results, errors,
                 successfulPlatforms, failedPlatforms, totalAttempts, success,
                 singleResult, beh, calls, startNames, everOk, pending, slept,
                 platformSuccess, platformError, completeEvents>>

\* removePlatform, lines 148-154: Map.delete; a live iterator that has passed
\* the deleted entry has one entry less behind it.
RemovePlatform(t) ==
  /\ UNCHANGED <<llmVars, httpVars, askVars, clsVars, regVars, valVars, extVars>>
  /\ muts < MaxMutations
  /\ ~CallSettled
  /\ muts' = muts + 1
  /\ IF t \in Range(platforms)
     THEN LET i == IndexOf(platforms, t) IN
          /\ platforms' = RemoveAt(platforms, i)
          /\ cursor' = IF ~NoCallInFlight /\ mode = "publish" /\ i <= cursor
                       THEN cursor - 1 ELSE cursor
          /\ mutated' = (mutated \/ ~NoCallInFlight)
     ELSE UNCHANGED <<platforms, cursor, mutated>>
  /\ UNCHANGED <<retryAttempts, pc, mode, cur, attempt, results, errors,
                 successfulPlatforms, failedPlatforms, totalAttempts, success,
                 singleResult, beh, calls, startNames, everOk, pending, slept,
                 platformSuccess, platformError, completeEvents>>

\* ================================================================ LlmCore
Requests == 1..MaxRequests

Min(a, b) == IF a <= b THEN a ELSE b

RECURSIVE Pow(_, _)
Pow(b, e) == IF e = 0 THEN 1 ELSE b * Pow(b, e - 1)

\* retry.timeouts(): one delay per retry, min(minTimeout * factor^i, maxTimeout).
Timeouts(retries) ==
  [i \in 1..retries |-> Min(LlmRetryDelay * Pow(RetryFactor, i - 1), LlmMaxTimeout)]

\* What the backend answers to one HTTP request.
Responses == {"ok", "server", "client"}

\* The axios error of a failed request: its code and response status.
RawError(k) ==
  CASE k = "server" -> [code |-> "ERR_BAD_RESPONSE", status |-> 500]
    [] k = "client" -> [code |-> "ERR_BAD_REQUEST", status |-> 400]

IsRetryableErrorNoRateLimit(e) ==
  \/ e.code = "ECONNRESET"
  \/ e.code = "ENOTFOUND"
  \/ e.status >= 500

\* isRetryableError, lines 165-177.
IsRetryableError(e) ==
  \/ e.code = "ECONNRESET"
  \/ e.code = "ENOTFOUND"
  \/ e.status >= 500
  \/ e.status = 429

\* A request before its makeRequest call.
NotStarted == [attempt |-> 0, retriesLeft |-> 0, alone |-> FALSE]

\* The state of the other components while one is explored.
LlmQuiet ==
  /\ maxRetries = 0
  /\ opTimeouts = <<>>
  /\ opAttempts = 1
  /\ opFn = 0
  /\ timers = 0
  /\ reqState = [r \in Requests |-> "new"]
  /\ inflight = [r \in Requests |-> 0]
  /\ hist = [r \in Requests |-> <<>>]
  /\ rejRetryable = [r \in Requests |-> "none"]
  /\ settledAt = [r \in Requests |-> 0]
  /\ reqStart = [r \in Requests |-> NotStarted]

\* The constructor, lines 44-56 and setupRetry, lines 109-116: the operation is
\* created once, with one timeout per configured retry.
InitLlm ==
  /\ maxRetries \in 0..MaxLlmRetries
  /\ opTimeouts = Timeouts(maxRetries)
  /\ opAttempts = 1
  /\ opFn = 0
  /\ timers = 0
  /\ reqState = [r \in Requests |-> "new"]
  /\ inflight = [r \in Requests |-> 0]
  /\ hist = [r \in Requests |-> <<>>]
  /\ rejRetryable = [r \in Requests |-> "none"]
  /\ settledAt = [r \in Requests |-> 0]
  /\ reqStart = [r \in Requests |-> NotStarted]

\* operation.retry(err) of the retry package: a retry is scheduled while a
\* timeout is left on the operation; the error itself is not inspected.
OperationRetries(to, k) == to # <<>>

\* makeRequest, lines 118-130: operation.attempt(fn) stores fn on the shared
\* operation and runs it; fn calls requestFn() and suspends.
LlmMakeRequest(r) ==
  /\ reqState[r] = "new"
  /\ \A q \in 1..(r - 1) : reqState[q] # "new"
  /\ reqState' = [reqState EXCEPT ![r] = "pending"]
  /\ opFn' = r
  /\ inflight' = [inflight EXCEPT ![r] = @ + 1]
  /\ reqStart' = [reqStart EXCEPT ![r] =
                    [attempt |-> opAttempts, retriesLeft |-> Len(opTimeouts),
                     alone |-> /\ timers = 0
                               /\ \A q \in Requests :
                                    inflight[q] = 0 /\ reqState[q] # "pending"]]
  /\ UNCHANGED <<maxRetries, opTimeouts, opAttempts, timers, hist, rejRetryable,
                 settledAt>>
  /\ UNCHANGED <<socialVars, httpVars, askVars, clsVars, regVars, valVars, extVars>>

\* A requestFn() call of request r settles, lines 130-147.
LlmResponds(r, k) ==
  /\ inflight[r] > 0
  /\ inflight' = [inflight EXCEPT ![r] = @ - 1]
  /\ hist' = [hist EXCEPT ![r] = Append(@, k)]
  /\ IF k = "ok"
     THEN /\ IF reqState[r] = "pending"
             THEN /\ reqState' = [reqState EXCEPT ![r] = "resolved"]
                  /\ settledAt' = [settledAt EXCEPT ![r] = Len(hist[r]) + 1]
             ELSE UNCHANGED <<reqState, settledAt>>
          /\ UNCHANGED <<opTimeouts, timers, rejRetryable>>
     ELSE IF OperationRetries(opTimeouts, k)
     THEN /\ opTimeouts' = Tail(opTimeouts)
          /\ timers' = timers + 1
          /\ UNCHANGED <<reqState, settledAt, rejRetryable>>
     ELSE /\ IF reqState[r] = "pending"
             THEN /\ reqState' = [reqState EXCEPT ![r] = "rejected"]
                  /\ settledAt' = [settledAt EXCEPT ![r] = Len(hist[r]) + 1]
                  /\ rejRetryable' = [rejRetryable EXCEPT
                                        ![r] = IsRetryableError(RawError(k))]
             ELSE UNCHANGED <<reqState, settledAt, rejRetryable>>
          /\ UNCHANGED <<opTimeouts, timers>>
  /\ UNCHANGED <<maxRetries, opAttempts, opFn, reqStart>>
  /\ UNCHANGED <<socialVars, httpVars, askVars, clsVars, regVars, valVars, extVars>>

\* A retry timer fires: the operation increments _attempts and runs the fn it
\* currently holds, which calls that request's requestFn() again.
LlmTimerFires ==
  /\ timers > 0
  /\ timers' = timers - 1
  /\ opAttempts' = opAttempts + 1
  /\ inflight' = [inflight EXCEPT ![opFn] = @ + 1]
  /\ UNCHANGED <<maxRetries, opTimeouts, opFn, reqState, hist, rejRetryable, settledAt,
                 reqStart>>
  /\ UNCHANGED <<socialVars, httpVars, askVars, clsVars, regVars, valVars, extVars>>

\* ================================================= SocialCore.makeRequest
HttpResponses == {"ok", "client", "server", "network"}

\* this.maxRetries = config.maxRetries || 3
HttpMaxRetriesOf(cfg) == IF cfg = 0 THEN DefaultHttpMaxRetries ELSE cfg

HttpQuiet ==
  /\ hMaxRetries = DefaultHttpMaxRetries
  /\ hPc = "idle"
  /\ hRetryCount = 0
  /\ hHist = <<>>
  /\ hDelays = <<>>

InitHttp ==
  /\ \E cfg \in 0..MaxHttpRetryCfg : hMaxRetries = HttpMaxRetriesOf(cfg)
  /\ hPc = "idle"
  /\ hRetryCount = 0
  /\ hHist = <<>>
  /\ hDelays = <<>>

\* Lines 73-74: await this.delay(this.retryDelay), the same delay every time.
HttpRetryDelay(retryCount) == SocialCoreRetryDelay

\* Line 72: if (retryCount < this.maxRetries)
HttpShouldRetry(k) == hRetryCount < hMaxRetries

\* makeRequest(url, options), lines 51-61: fetch is called and awaited.
HttpMakeRequest ==
  /\ hPc = "idle"
  /\ hPc' = "fetching"
  /\ hRetryCount' = 0
  /\ UNCHANGED <<hMaxRetries, hHist, hDelays>>
  /\ UNCHANGED <<socialVars, llmVars, askVars, clsVars, regVars, valVars, extVars>>

\* fetch settles, lines 63-79: a response that is not ok is thrown like a
\* rejected fetch; the catch block retries or rethrows.
HttpResponds(k) ==
  /\ hPc = "fetching"
  /\ hHist' = Append(hHist, k)
  /\ hPc' = IF k = "ok" THEN "resolved"
            ELSE IF HttpShouldRetry(k) THEN "delaying" ELSE "rejected"
  /\ hDelays' = IF k # "ok" /\ HttpShouldRetry(k)
                THEN Append(hDelays, HttpRetryDelay(hRetryCount)) ELSE hDelays
  /\ UNCHANGED <<hMaxRetries, hRetryCount>>
  /\ UNCHANGED <<socialVars, llmVars, askVars, clsVars, regVars, valVars, extVars>>

\* The delay of line 74 elapses; line 75 calls makeRequest(retryCount + 1).
HttpDelayElapses ==
  /\ hPc = "delaying"
  /\ hPc' = "fetching"
  /\ hRetryCount' = hRetryCount + 1
  /\ UNCHANGED <<hMaxRetries, hHist, hDelays>>
  /\ UNCHANGED <<socialVars, llmVars, askVars, clsVars, regVars, valVars, extVars>>

\* =============================================================== LlmPlugin
\* What one provider.ask(request) call does: resolve, reject with an error
\* whose retryable flag is set, or reject with one whose flag is not.
ProviderOutcomes == {"ok", "retryable", "terminal"}

NoOutcome == [kind |-> "none", src |-> "none", n |-> 0, retryable |-> FALSE]

\* The response of the n-th ask call of provider src.
ValueOf(src, n) == [kind |-> "value", src |-> src, n |-> n, retryable |-> FALSE]

\* The error the n-th ask call of provider src rejected with.
ErrorOf(src, n, k) == [kind |-> "error", src |-> src, n |-> n, retryable |-> (k = "retryable")]

\* throw lastError! with lastError never assigned (line 86).
UndefinedError == [kind |-> "undefined", src |-> "none", n |-> 0, retryable |-> FALSE]

AskQuiet ==
  /\ hasFallback = FALSE
  /\ aMode = "none"
  /\ aMaxRetries = 0
  /\ aAttempt = 0
  /\ aPc = "off"
  /\ pHist = <<>>
  /\ fHist = <<>>
  /\ aErr = NoOutcome
  /\ aLast = NoOutcome
  /\ aOutcome = NoOutcome
  /\ aDelays = <<>>

\* The constructor, lines 21-27.
InitAsk ==
  /\ hasFallback \in BOOLEAN
  /\ aMode = "none"
  /\ aMaxRetries = 0
  /\ aAttempt = 0
  /\ aPc = "idle"
  /\ pHist = <<>>
  /\ fHist = <<>>
  /\ aErr = NoOutcome
  /\ aLast = NoOutcome
  /\ aOutcome = NoOutcome
  /\ aDelays = <<>>

UseFallbackAlways(e) == hasFallback

UseFallbackOnTerminal(e) == hasFallback /\ ~e.retryable

UseFallbackNever(e) == FALSE

\* Line 54: if (this.fallbackProvider && llmError.retryable)
UseFallback(e) == hasFallback /\ e.retryable

ErrorOfFallback(pe, fe) == fe

\* Lines 57-60: the fallback's error is dropped, throw llmError.
ErrorAfterFallbackFails(pe, fe) == pe

\* Line 76: if (attempt === maxRetries || !lastError.retryable) throw lastError
AskWithRetryStops(att, e) == att = aMaxRetries \/ ~e.retryable

\* Line 70: attempt <= maxRetries
LoopContinues(att, max) == att <= max

\* Line 81: Math.min(1000 * Math.pow(2, attempt - 1), 10000)
AskBackoffDelay(att) == Min(AskBaseDelay * Pow(AskDelayFactor, att - 1), AskMaxDelay)

\* ask() settles with o: the promise of ask itself, or lines 72-82 of the
\* askWithRetry loop that awaits it.
AskSettles(o) ==
  IF aMode = "ask" \/ o.kind = "value"
  THEN /\ aPc' = IF o.kind = "value" THEN "resolved" ELSE "rejected"
       /\ aOutcome' = o
       /\ aLast' = aLast
       /\ UNCHANGED aDelays
  ELSE /\ aLast' = o
       /\ IF AskWithRetryStops(aAttempt, o)
          THEN /\ aPc' = "rejected"
               /\ aOutcome' = o
               /\ UNCHANGED aDelays
          ELSE /\ aPc' = "sleeping"
               /\ aDelays' = Append(aDelays, AskBackoffDelay(aAttempt))
               /\ UNCHANGED aOutcome

\* ask(request), lines 47-49: the primary provider is asked.
AskCall ==
  /\ aPc = "idle"
  /\ aMode' = "ask"
  /\ aPc' = "primary"
  /\ UNCHANGED <<hasFallback, aMaxRetries, aAttempt, pHist, fHist, aErr, aLast,
                 aOutcome, aDelays>>
  /\ UNCHANGED <<socialVars, llmVars, httpVars, clsVars, regVars, valVars, extVars>>

\* askWithRetry(request, maxRetries), lines 67-72 and 86: the loop is entered
\* with attempt = 1, or skipped.
AskWithRetryCall(max) ==
  /\ aPc = "idle"
  /\ aMode' = "retry"
  /\ aMaxRetries' = max
  /\ aAttempt' = 1
  /\ IF LoopContinues(1, max)
     THEN /\ aPc' = "primary"
          /\ UNCHANGED aOutcome
     ELSE /\ aPc' = "rejected"
          /\ aOutcome' = UndefinedError
  /\ UNCHANGED <<hasFallback, pHist, fHist, aErr, aLast, aDelays>>
  /\ UNCHANGED <<socialVars, llmVars, httpVars, clsVars, regVars, valVars, extVars>>

\* provider.ask settles, lines 49-63.
PrimarySettles(k) ==
  /\ aPc = "primary"
  /\ pHist' = Append(pHist, k)
  /\ LET n == Len(pHist) + 1 IN
     IF k = "ok"
     THEN /\ AskSettles(ValueOf("primary", n))
          /\ UNCHANGED aErr
     ELSE LET e == ErrorOf("primary", n, k) IN
          /\ aErr' = e
          /\ IF UseFallback(e)
             THEN /\ aPc' = "fallback"
                  /\ UNCHANGED <<aLast, aOutcome, aDelays>>
             ELSE AskSettles(e)
  /\ UNCHANGED <<hasFallback, aMode, aMaxRetries, aAttempt, fHist>>
  /\ UNCHANGED <<socialVars, llmVars, httpVars, clsVars, regVars, valVars, extVars>>

\* fallbackProvider.ask settles, lines 56-60.
FallbackSettles(k) ==
  /\ aPc = "fallback"
  /\ fHist' = Append(fHist, k)
  /\ LET n == Len(fHist) + 1 IN
     IF k = "ok"
     THEN AskSettles(ValueOf("fallback", n))
     ELSE AskSettles(ErrorAfterFallbackFails(aErr, ErrorOf("fallback", n, k)))
  /\ UNCHANGED <<hasFallback, aMode, aMaxRetries, aAttempt, pHist, aErr>>
  /\ UNCHANGED <<socialVars, llmVars, httpVars, clsVars, regVars, valVars, extVars>>

\* The delay of line 82 elapses: attempt++, the loop test, then ask again or
\* line 86.
AskDelayElapses ==
  /\ aPc = "sleeping"
  /\ aAttempt' = aAttempt + 1
  /\ IF LoopContinues(aAttempt + 1, aMaxRetries)
     THEN /\ aPc' = "primary"
          /\ UNCHANGED aOutcome
     ELSE /\ aPc' = "rejected"
          /\ aOutcome' = aLast
  /\ UNCHANGED <<hasFallback, aMode, aMaxRetries, pHist, fHist, aErr, aLast, aDelays>>
  /\ UNCHANGED <<socialVars, llmVars, httpVars, clsVars, regVars, valVars, extVars>>

\* ================================================ LlmCore.createLlmError
\* Raw errors: a response with an error status (axios sets the code from the
\* status class), or no response and a network error code. Status 0 stands
\* for error.response?.status being undefined, which fails both comparisons
\* of line 172.
ClientStatuses == 400..MaxClientStatus
ServerStatuses == 500..MaxServerStatus

NetworkCodes == {"ECONNRESET", "ENOTFOUND", "ECONNABORTED", "ETIMEDOUT",
                 "ECONNREFUSED", "ERR_NETWORK", "none"}

\* The codes axios gives an error raised by its timeout option (lines 62-69):
\* ECONNABORTED, or ETIMEDOUT under transitional.clarifyTimeoutError.
TimeoutCodes == {"ECONNABORTED", "ETIMEDOUT"}

RawErrors == {[code |-> "ERR_BAD_REQUEST", status |-> st] : st \in ClientStatuses}
             \cup {[code |-> "ERR_BAD_RESPONSE", status |-> st] : st \in ServerStatuses}
             \cup {[code |-> c, status |-> 0] : c \in NetworkCodes}

ClsQuiet ==
  /\ rawCode = "none"
  /\ rawStatus = 0
  /\ classified = <<>>

InitCls ==
  /\ \E e \in RawErrors : rawCode = e.code /\ rawStatus = e.status
  /\ classified = <<>>

\* createLlmError, lines 152-163: llmError.retryable = this.isRetryableError(error)
CreateLlmError ==
  /\ classified = <<>>
  /\ classified' = <<[retryable |-> IsRetryableError([code |-> rawCode, status |-> rawStatus])]>>
  /\ UNCHANGED <<rawCode, rawStatus>>
  /\ UNCHANGED <<socialVars, llmVars, httpVars, askVars, regVars, valVars, extVars>>

\* ================================================ SocialPlugin registry
\* The registry as a Map: entries [name, adapter] in insertion order. An
\* adapter object is told apart by its name and the number it was constructed
\* as under that name; 0 stands for undefined.
MapKeys(m) == [i \in 1..Len(m) |-> m[i].name]

MapHas(m, n) == \E i \in 1..Len(m) : m[i].name = n

MapIndex(m, n) == CHOOSE i \in 1..Len(m) : m[i].name = n

MapGet(m, n) == IF MapHas(m, n) THEN m[MapIndex(m, n)].adapter ELSE 0

MapSetAppends(m, n, a) == Append(m, [name |-> n, adapter |-> a])

\* Map.set: the value of an existing key is replaced in place, a new key is
\* appended.
MapSet(m, n, a) ==
  IF MapHas(m, n) THEN [m EXCEPT ![MapIndex(m, n)].adapter = a]
                  ELSE Append(m, [name |-> n, adapter |-> a])

MapDeleteKeeps(m, n) == m

\* Map.delete: the entry of the key, if any, is removed.
MapDelete(m, n) == IF MapHas(m, n) THEN RemoveAt(m, MapIndex(m, n)) ELSE m

DeletedAlways(m, n) == TRUE

\* Line 149: the value Map.delete returns.
Deleted(m, n) == MapHas(m, n)

\* PlatformFactory.platforms, lines 21-28.
AvailablePlatforms == {"facebook", "instagram", "linkedin", "tiktok", "twitter"}

\* isPlatformSupported, lines 53-55.
IsPlatformSupported(n) == n \in AvailablePlatforms

\* Keys a configuration object may carry: platform types and one other key.
ConfigKeys == Platforms \cup {"myspace"}

\* The value under a key: undefined ("absent"), a configuration the adapter's
\* constructor accepts ("valid"), or one it throws on, e.g. without an access
\* token ("invalid").
ConfigKinds == {"absent", "valid", "invalid"}

Configs == {c \in UNION {[1..n -> [name : ConfigKeys, kind : ConfigKinds]] :
                           n \in 0..Cardinality(ConfigKeys)} :
              \A i, j \in 1..Len(c) : i # j => c[i].name # c[j].name}

ConstructorNeverThrows(kind) == FALSE

\* new PlatformClass(config, logger) throws (e.g. facebook-platform.ts lines
\* 20-22).
ConstructorThrows(kind) == kind = "invalid"

NoCall == [op |-> "none", name |-> "none", kind |-> "none", threw |-> FALSE,
           returned |-> FALSE, before |-> <<>>]

\* createPlatform, lines 33-41: an unknown platform type, or a constructor
\* that throws.
CreatePlatformThrows(t, kind) == ~IsPlatformSupported(t) \/ ConstructorThrows(kind)

CreateEntryRethrows(acc, e) ==
  IF acc.failed \/ ~(e.kind # "absent" /\ IsPlatformSupported(e.name)) THEN acc
  ELSE IF ConstructorThrows(e.kind) THEN [acc EXCEPT !.failed = TRUE]
  ELSE [acc EXCEPT !.map = MapSet(@, e.name, 1)]

\* createPlatforms, lines 63-72: one entry of the configuration.
CreateEntry(acc, e) ==
  IF ~(e.kind # "absent" /\ IsPlatformSupported(e.name)) THEN acc
  ELSE IF ConstructorThrows(e.kind) THEN acc
  ELSE [acc EXCEPT !.map = MapSet(@, e.name, 1)]

RECURSIVE CreateFrom(_, _, _)
CreateFrom(cfg, i, acc) ==
  IF i > Len(cfg) THEN acc ELSE CreateFrom(cfg, i + 1, CreateEntry(acc, cfg[i]))

\* createPlatforms, lines 60-75.
CreatePlatforms(cfg) == CreateFrom(cfg, 1, [map |-> <<>>, failed |-> FALSE])

\* getConfiguredPlatforms, lines 159-161.
GetConfiguredPlatforms == MapKeys(registry)

\* getPlatform, lines 166-168.
GetPlatform(n) == MapGet(registry, n)

\* isPlatformConfigured, lines 173-175.
IsPlatformConfigured(n) == MapHas(registry, n)

\* Line 50: the [platformType, platform] pairs a publish call iterates.
PublishTargets == registry

RegQuiet ==
  /\ rPc = "off"
  /\ rConfig = <<>>
  /\ registry = <<>>
  /\ rCreated = NoCalls
  /\ rLastOn = [t \in Platforms |-> "none"]
  /\ rLast = NoCall
  /\ rOps = 0

\* new SocialPlugin(config) is about to be called.
InitReg ==
  /\ rPc = "new"
  /\ rConfig \in Configs
  /\ registry = <<>>
  /\ rCreated = NoCalls
  /\ rLastOn = [t \in Platforms |-> "none"]
  /\ rLast = NoCall
  /\ rOps = 0

\* The constructor, lines 27-36.
Construct ==
  /\ rPc = "new"
  /\ LET made == CreatePlatforms(rConfig) IN
     /\ rPc' = IF made.failed THEN "failed" ELSE "ready"
     /\ registry' = IF made.failed THEN <<>> ELSE made.map
     /\ rCreated' = [t \in Platforms |-> IF MapHas(made.map, t) THEN 1 ELSE 0]
     /\ rLastOn' = [t \in Platforms |->
                      IF ~made.failed /\ MapHas(made.map, t) THEN "add" ELSE "none"]
  /\ UNCHANGED <<rConfig, rLast, rOps>>
  /\ UNCHANGED <<socialVars, llmVars, httpVars, askVars, clsVars, valVars, extVars>>

\* addPlatform(platformType, config), lines 133-143.
AddPlatformWith(t, kind) ==
  /\ rPc = "ready"
  /\ rOps < MaxRegistryOps
  /\ rOps' = rOps + 1
  /\ IF CreatePlatformThrows(t, kind)
     THEN /\ rLast' = [op |-> "add", name |-> t, kind |-> kind, threw |-> TRUE,
                       returned |-> FALSE, before |-> registry]
          /\ UNCHANGED <<registry, rCreated, rLastOn>>
     ELSE /\ rCreated' = [rCreated EXCEPT ![t] = @ + 1]
          /\ registry' = MapSet(registry, t, rCreated[t] + 1)
          /\ rLastOn' = [rLastOn EXCEPT ![t] = "add"]
          /\ rLast' = [op |-> "add", name |-> t, kind |-> kind, threw |-> FALSE,
                       returned |-> FALSE, before |-> registry]
  /\ UNCHANGED <<rPc, rConfig>>
  /\ UNCHANGED <<socialVars, llmVars, httpVars, askVars, clsVars, valVars, extVars>>

\* removePlatform(platformType), lines 148-154.
RemovePlatformReturning(t) ==
  /\ rPc = "ready"
  /\ rOps < MaxRegistryOps
  /\ rOps' = rOps + 1
  /\ registry' = MapDelete(registry, t)
  /\ rLastOn' = [rLastOn EXCEPT ![t] = "remove"]
  /\ rLast' = [op |-> "remove", name |-> t, kind |-> "none", threw |-> FALSE,
               returned |-> Deleted(registry, t), before |-> registry]
  /\ UNCHANGED <<rPc, rConfig, rCreated>>
  /\ UNCHANGED <<socialVars, llmVars, httpVars, askVars, clsVars, valVars, extVars>>

\* ============================================== SocialPlugin.validatePost
\* A content string by what the checks read of it: whether it is there at all,
\* its length, and whether trim() leaves nothing of it.
NoContent == [present |-> FALSE, len |-> 0, blank |-> TRUE]

Contents ==
  {NoContent} \cup
  {c \in [present : {TRUE}, len : {0, 1, MaxContentLength, MaxContentLength + 1},
          blank : BOOLEAN] : c.len = 0 => c.blank}

\* post.media by its length, -1 when the field is absent.
MediaCounts == {-1, 0, 1, MaxMediaFiles, MaxMediaFiles + 1}

Posts == [content : Contents, media : MediaCounts]

ContentEmptyNoTrim(post) == ~post.content.present \/ post.content.len = 0

\* !post.content || post.content.trim().length === 0
ContentEmpty(post) ==
  ~post.content.present \/ post.content.len = 0 \/ post.content.blank

CoreValidatePostAtBoundary(post) ==
  IF ContentEmpty(post) THEN <<"Post content cannot be empty">>
  ELSE IF post.content.len >= MaxContentLength
    THEN <<"Post content exceeds maximum length">>
  ELSE IF post.media # -1 /\ post.media > MaxMediaFiles
    THEN <<"Too many media files (maximum 10)">>
  ELSE <<>>

\* SocialCore.validatePost, lines 92-104: the message of the error it throws,
\* none when it returns.
CoreValidatePost(post) ==
  IF ContentEmpty(post) THEN <<"Post content cannot be empty">>
  ELSE IF post.content.len > MaxContentLength
    THEN <<"Post content exceeds maximum length">>
  ELSE IF post.media # -1 /\ post.media > MaxMediaFiles
    THEN <<"Too many media files (maximum 10)">>
  ELSE <<>>

\* An entry of errors: the target it is prefixed with ("" for none) and the
\* message.
ErrorEntry(t, msg) == [target |-> t, message |-> msg]

SharedErrorsMediaAtBoundary(post) ==
  (IF ContentEmpty(post)
     THEN <<ErrorEntry("", "Post content cannot be empty")>> ELSE <<>>)
  \o (IF post.content.present /\ post.content.len > 0
          /\ post.content.len > MaxContentLength
     THEN <<ErrorEntry("", "Post content exceeds maximum length (5000 characters)")>>
     ELSE <<>>)
  \o (IF post.media # -1 /\ post.media >= MaxMediaFiles
     THEN <<ErrorEntry("", "Too many media files (maximum 10)")>> ELSE <<>>)

\* Lines 190-201: the three shared checks.
SharedErrors(post) ==
  (IF ContentEmpty(post)
     THEN <<ErrorEntry("", "Post content cannot be empty")>> ELSE <<>>)
  \o (IF post.content.present /\ post.content.len > 0
          /\ post.content.len > MaxContentLength
     THEN <<ErrorEntry("", "Post content exceeds maximum length (5000 characters)")>>
     ELSE <<>>)
  \o (IF post.media # -1 /\ post.media > MaxMediaFiles
     THEN <<ErrorEntry("", "Too many media files (maximum 10)")>> ELSE <<>>)

\* Lines 204-210: every registered platform's validatePost, in Map order.
RECURSIVE PlatformErrors(_, _, _)
PlatformErrors(reg, post, i) ==
  IF i > Len(reg) THEN <<>>
  ELSE (IF CoreValidatePost(post) # <<>>
          THEN <<ErrorEntry(reg[i].name, CoreValidatePost(post)[1])>> ELSE <<>>)
       \o PlatformErrors(reg, post, i + 1)

ValidatePostFirstOnly(reg, post) ==
  LET all == SharedErrors(post) \o PlatformErrors(reg, post, 1)
      errs == IF all = <<>> THEN <<>> ELSE <<all[1]>>
  IN [valid |-> errs = <<>>, errors |-> errs]

\* validatePost, lines 187-216.
ValidatePost(reg, post) ==
  LET errs == SharedErrors(post) \o PlatformErrors(reg, post, 1)
  IN [valid |-> errs = <<>>, errors |-> errs]

\* instagram-platform.ts lines 45-48 and tiktok-platform.ts lines 31-34: the
\* adapters whose publish throws on a post without media.
RequiresMedia(t) == t \in {"instagram", "tiktok"}

MediaMessage(t) ==
  IF t = "instagram" THEN "Instagram requires at least one media file for posts"
                     ELSE "TikTok requires video content for posts"

\* The checks of the payload at the head of an adapter's publish:
\* this.validatePost(post), then the adapter's media requirement.
PublishPayloadCheck(t, post) ==
  IF CoreValidatePost(post) # <<>> THEN CoreValidatePost(post)
  ELSE IF RequiresMedia(t) /\ (post.media = -1 \/ post.media = 0)
    THEN <<MediaMessage(t)>>
  ELSE <<>>

NoResult == [valid |-> FALSE, errors |-> <<>>]

NoCheck == [target |-> "none", error |-> <<>>]

ValQuiet ==
  /\ vPc = "off"
  /\ vPost = [content |-> NoContent, media |-> -1]
  /\ vResult = NoResult
  /\ vPublish = NoCheck

InitVal ==
  /\ vPc = "idle"
  /\ vPost \in Posts
  /\ vResult = NoResult
  /\ vPublish = NoCheck

\* plugin.validatePost(post)
ValidatePostCall ==
  /\ rPc = "ready"
  /\ vPc = "idle"
  /\ vPc' = "validated"
  /\ vResult' = ValidatePost(registry, vPost)
  /\ UNCHANGED <<vPost, vPublish>>
  /\ UNCHANGED <<socialVars, llmVars, httpVars, askVars, clsVars, regVars, extVars>>

\* The registered adapter of t gets the post to publish and checks it.
AdapterChecksPost(t) ==
  /\ vPc = "validated"
  /\ MapHas(registry, t)
  /\ vPc' = "checked"
  /\ vPublish' = [target |-> t, error |-> PublishPayloadCheck(t, vPost)]
  /\ UNCHANGED <<vPost, vResult>>
  /\ UNCHANGED <<socialVars, llmVars, httpVars, askVars, clsVars, regVars, extVars>>

\* ============================================== adapters' publish(post)
\* The SocialCore an adapter runs on: social-core.ts, built on fetch.
\* InstagramPlatform calls this.post, which only the SocialCore built on axios
\* has (src/unnamed/part_001 lines 152-154), so it is run on either.
AdapterCores(t) == IF t = "instagram" THEN {"fetch", "axios"} ELSE {"fetch"}

\* After the payload checks, the steps publish waits on, in order; each ends
\* the try block when it throws. The media upload runs uploadSingleMedia only
\* for a non-empty list; "api" is the reading and check of an answer's body.
\* TikTok reads the video before it sends the PUT request, whose answer
\* makeRequest has already checked. On social-core.ts Instagram gets no
\* further than its first this.post call, inside the upload.
PublishStages(t, post, core) ==
  CASE t = "facebook" ->
         (IF post.media > 0 THEN <<"upload">> ELSE <<>>) \o <<"request", "api">>
    [] t = "twitter" ->
         (IF post.media > 0 THEN <<"upload">> ELSE <<>>) \o <<"request", "api">>
    [] t = "linkedin" -> <<"request", "api">>
    [] t = "tiktok" -> <<"request", "api", "fetchVideo", "uploadRequest">>
    [] t = "instagram" ->
         IF core = "axios" THEN <<"upload", "container", "mediaPublish">>
                           ELSE <<"upload">>

\* How a step can settle: it goes through ("ok"), or it throws an Error
\* ("fail"). Twitter's upload can also throw the event FileReader.onerror
\* hands to reject (twitter-platform.ts line 138), which has no message; and
\* Instagram's upload on social-core.ts always throws the TypeError of calling
\* this.post.
StageOutcomes(t, core, stage) ==
  IF t = "instagram" /\ core = "fetch" THEN {"typeError"}
  ELSE IF t = "twitter" /\ stage = "upload" THEN {"ok", "fail", "failNoMessage"}
  ELSE {"ok", "fail"}

\* The value a failing step throws: its message, when it has one.
Thrown(stage, o) ==
  [message |-> CASE o = "fail" -> <<stage>>
                 [] o = "typeError" -> <<"this.post is not a function">>
                 [] o = "failNoMessage" -> <<>>]

\* The platform literal of each adapter's publish.
PlatformLiteral(t) ==
  CASE t = "facebook" -> "facebook"
    [] t = "twitter" -> "twitter"
    [] t = "linkedin" -> "linkedin"
    [] t = "tiktok" -> "tiktok"
    [] t = "instagram" -> "instagram"

NoEvents == [success |-> 0, error |-> 0]

NoResponse == [rejected |-> FALSE, success |-> FALSE, error |-> <<>>,
               platform |-> "none"]

\* The catch block of publish: logError emits 'publish:error', and the failed
\* response is returned with error: error.message.
PublishCaught(t, err, ev) ==
  [result |-> [rejected |-> FALSE, success |-> FALSE, error |-> err.message,
               platform |-> PlatformLiteral(t)],
   events |-> [ev EXCEPT !.error = @ + 1]]

\* The end of the try block: logSuccess emits 'publish:success', and the
\* response is returned.
PublishSucceeded(t, ev) ==
  [result |-> [rejected |-> FALSE, success |-> TRUE, error |-> <<>>,
               platform |-> PlatformLiteral(t)],
   events |-> [ev EXCEPT !.success = @ + 1]]

PubQuiet ==
  /\ pPc = "off"
  /\ pAdapter = "none"
  /\ pCore = "none"
  /\ pPost = [content |-> NoContent, media |-> -1]
  /\ pStage = 0
  /\ pThrown = <<>>
  /\ pResult = NoResponse
  /\ pEvents = NoEvents

\* An adapter, the core it runs on and the post it is about to be given.
InitPub ==
  /\ pPc = "idle"
  /\ pAdapter \in AvailablePlatforms
  /\ pCore \in AdapterCores(pAdapter)
  /\ pPost \in Posts
  /\ pStage = 0
  /\ pThrown = <<>>
  /\ pResult = NoResponse
  /\ pEvents = NoEvents

\* publish(post) is called: this.validatePost(post) and the adapter's media
\* requirement.
AdapterPublishCalled ==
  /\ pPc = "idle"
  /\ LET thrown == PublishPayloadCheck(pAdapter, pPost) IN
     IF thrown # <<>>
     THEN /\ pPc' = "done"
          /\ pThrown' = <<[message |-> thrown]>>
          /\ pResult' = PublishCaught(pAdapter, [message |-> thrown], pEvents).result
          /\ pEvents' = PublishCaught(pAdapter, [message |-> thrown], pEvents).events
          /\ UNCHANGED pStage
     ELSE /\ pPc' = "running"
          /\ pStage' = 1
          /\ UNCHANGED <<pThrown, pResult, pEvents>>
  /\ UNCHANGED <<pAdapter, pCore, pPost>>
  /\ UNCHANGED <<coreVars, cmVars, cronVars>>

\* The step publish is waiting on settles: it goes through or throws.
AdapterStageSettles(o) ==
  /\ pPc = "running"
  /\ LET stages == PublishStages(pAdapter, pPost, pCore) IN
     /\ o \in StageOutcomes(pAdapter, pCore, stages[pStage])
     /\ IF o # "ok"
        THEN /\ pPc' = "done"
             /\ pThrown' = <<Thrown(stages[pStage], o)>>
             /\ pResult' = PublishCaught(pAdapter, Thrown(stages[pStage], o), pEvents).result
             /\ pEvents' = PublishCaught(pAdapter, Thrown(stages[pStage], o), pEvents).events
             /\ UNCHANGED pStage
        ELSE IF pStage = Len(stages)
        THEN /\ pPc' = "done"
             /\ pResult' = PublishSucceeded(pAdapter, pEvents).result
             /\ pEvents' = PublishSucceeded(pAdapter, pEvents).events
             /\ UNCHANGED <<pStage, pThrown>>
        ELSE /\ pStage' = pStage + 1
             /\ UNCHANGED <<pPc, pThrown, pResult, pEvents>>
  /\ UNCHANGED <<pAdapter, pCore, pPost>>
  /\ UNCHANGED <<coreVars, cmVars, cronVars>>

\* ============================================== ContentManager.publish
\* The platforms the ContentManager constructor configures (part_008 lines
\* 30-49), each with its credentials.
CmPlatformConfig == <<[name |-> "facebook", kind |-> "valid"],
                      [name |-> "instagram", kind |-> "valid"],
                      [name |-> "tiktok", kind |-> "valid"]>>

\* The registry of the SocialPlugin the constructor creates (lines 52-57).
CmRegistry == CreatePlatforms(CmPlatformConfig).map

\* The post publish builds (lines 89-92): 41 characters of content, no media.
CmPost == [content |-> [present |-> TRUE, len |-> 41, blank |-> FALSE], media |-> -1]

CmBranchAlwaysDispatches(validation) ==
  [dispatch |-> TRUE, ret |-> [success |-> TRUE, messages |-> <<>>]]

\* Lines 97-105: the branch on validation.valid, whether socialPlugin.publish
\* is called, and what is returned (after the publish, when it is called).
CmBranch(validation) ==
  IF validation.valid
  THEN [dispatch |-> TRUE, ret |-> [success |-> TRUE, messages |-> <<>>]]
  ELSE [dispatch |-> FALSE,
        ret |-> [success |-> FALSE, messages |-> validation.errors]]

\* SocialPlugin.publish, line 83: success of the fan-out result.
FanOutSuccess(successful) == successful > 0

CmQuiet ==
  /\ cmPc = "off"
  /\ cmCursor = 0
  /\ cmSuccessful = 0
  /\ cmReturns = <<>>

InitCm ==
  /\ cmPc = "idle"
  /\ cmCursor = 0
  /\ cmSuccessful = 0
  /\ cmReturns = <<>>

\* publish(id), lines 88-98: the post is validated; a valid post is handed to
\* socialPlugin.publish, an invalid one is answered at once.
CmPublishCalled ==
  /\ cmPc = "idle"
  /\ Len(cmReturns) < MaxCmCalls
  /\ LET b == CmBranch(ValidatePost(CmRegistry, CmPost)) IN
     IF b.dispatch
     THEN /\ cmPc' = "publishing"
          /\ cmCursor' = 1
          /\ cmSuccessful' = 0
          /\ UNCHANGED cmReturns
     ELSE /\ cmReturns' = Append(cmReturns, [ret |-> b.ret, dispatches |-> 0,
                                              fanOut |-> FALSE])
          /\ UNCHANGED <<cmPc, cmCursor, cmSuccessful>>
  /\ UNCHANGED <<coreVars, pubVars, cronVars>>

\* SocialPlugin.publish, lines 50-66: the adapter of the next target answers;
\* it fails when its own check of the payload throws.
CmTargetSettles(o) ==
  /\ cmPc = "publishing"
  /\ cmCursor <= Len(CmRegistry)
  /\ LET t == CmRegistry[cmCursor].name
         rejectsPayload == PublishPayloadCheck(t, CmPost) # <<>>
     IN /\ rejectsPayload => o = "fail"
        /\ cmSuccessful' = IF o = "ok" THEN cmSuccessful + 1 ELSE cmSuccessful
  /\ cmCursor' = cmCursor + 1
  /\ UNCHANGED <<cmPc, cmReturns>>
  /\ UNCHANGED <<coreVars, pubVars, cronVars>>

\* Lines 99-101: socialPlugin.publish has resolved and publish returns.
CmPublishReturns ==
  /\ cmPc = "publishing"
  /\ cmCursor > Len(CmRegistry)
  /\ cmPc' = "idle"
  /\ cmReturns' = Append(cmReturns,
                         [ret |-> CmBranch(ValidatePost(CmRegistry, CmPost)).ret,
                          dispatches |-> 1,
                          fanOut |-> FanOutSuccess(cmSuccessful)])
  /\ cmCursor' = 0
  /\ cmSuccessful' = 0
  /\ UNCHANGED <<coreVars, pubVars, cronVars>>

\* ======================================================== NodeCronPlugin
\* Job ids and cron expressions the calls are made with.
CronIds == {"ping", "daily"}

CronTimes == {"*/3 * * * * *", "0 9 * * *", "every day"}

\* cron.validate of node-cron.
CronValidate(cronTime) == cronTime \in {"*/3 * * * * *", "0 9 * * *"}

\* Map.has on a Map held as the sequence of its keys.
HasTask(tasks, id) == \E i \in 1..Len(tasks) : tasks[i] = id

\* Map.delete on each.
DeleteTask(tasks, id) == SelectSeq(tasks, LAMBDA k : k # id)

DeleteEntry(entries, id) == SelectSeq(entries, LAMBDA e : e.id # id)

RECURSIVE StopLoopSkips(_, _)
StopLoopSkips(tasks, i) ==
  IF i > Len(tasks) THEN tasks ELSE StopLoopSkips(RemoveAt(tasks, i), i + 1)

\* stop, lines 38-41: the loop deletes the entry the iterator is at; the Map's
\* iterator then yields the entry that followed it.
RECURSIVE StopLoop(_, _)
StopLoop(tasks, i) ==
  IF i > Len(tasks) THEN tasks ELSE StopLoop(RemoveAt(tasks, i), i)

NoCronCall == [op |-> "none", id |-> "none", cronTime |-> "none",
               returned |-> FALSE, threw |-> FALSE,
               tasks |-> <<>>, entries |-> <<>>]

\* new NodeCronPlugin(): both maps are empty.
InitCron ==
  /\ cTasks = <<>>
  /\ cEntries = <<>>
  /\ cLast = NoCronCall
  /\ cOps = 0
  /\ cLoading = 0

\* add(id, cronTime, url, persist), lines 94-122: the maps it leaves, what it
\* returns and whether it throws.
Add(tasks, entries, id, cronTime) ==
  IF HasTask(tasks, id)
  THEN [tasks |-> tasks, entries |-> entries, returned |-> FALSE, threw |-> FALSE]
  ELSE IF ~CronValidate(cronTime)
  THEN [tasks |-> tasks, entries |-> entries, returned |-> FALSE, threw |-> TRUE]
  ELSE [tasks |-> Append(tasks, id),
        entries |-> Append(entries, [id |-> id, cronTime |-> cronTime]),
        returned |-> TRUE, threw |-> FALSE]

\* add(id, cronTime, url) is called.
CronAdd(id, cronTime) ==
  /\ cOps < MaxCronOps
  /\ cOps' = cOps + 1
  /\ LET r == Add(cTasks, cEntries, id, cronTime) IN
     /\ cTasks' = r.tasks
     /\ cEntries' = r.entries
     /\ cLast' = [op |-> "add", id |-> id, cronTime |-> cronTime,
                  returned |-> r.returned, threw |-> r.threw,
                  tasks |-> cTasks, entries |-> cEntries]
  /\ UNCHANGED cLoading
  /\ UNCHANGED <<coreVars, pubVars, cmVars>>

\* The default schedule, lines 46-56.
DefaultSchedule == <<[id |-> "ping", cronTime |-> "*/3 * * * * *"]>>

\* The schedules a schedule file can hold.
ScheduleEntries == [id : CronIds, cronTime : CronTimes]

Schedules == UNION {[1..n -> ScheduleEntries] : n \in 0..MaxSchedule}

\* load, lines 72-74 and 77-84: each entry is added in order; an add that
\* throws ends the loop in the catch block, which keeps what was added.
RECURSIVE LoadLoop(_, _, _, _)
LoadLoop(tasks, entries, schedules, i) ==
  IF i > Len(schedules) THEN [tasks |-> tasks, entries |-> entries]
  ELSE LET r == Add(tasks, entries, schedules[i].id, schedules[i].cronTime) IN
       IF r.threw THEN [tasks |-> r.tasks, entries |-> r.entries]
       ELSE LoadLoop(r.tasks, r.entries, schedules, i + 1)

\* load up to its first await, lines 60-70, on the maps it is called with:
\* without a schedule file the default schedule is added at once; with one,
\* load waits for fs.readFile.
LoadCalled(tasks, entries, fileExists) ==
  IF fileExists THEN [tasks |-> tasks, entries |-> entries]
  ELSE LoadLoop(tasks, entries, DefaultSchedule, 1)

\* start(), lines 26-29, or load() itself: start calls load and does not wait
\* for it.
CronLoad(op, fileExists) ==
  /\ cOps < MaxCronOps
  /\ cOps' = cOps + 1
  /\ cTasks' = LoadCalled(cTasks, cEntries, fileExists).tasks
  /\ cEntries' = LoadCalled(cTasks, cEntries, fileExists).entries
  /\ cLoading' = IF fileExists THEN cLoading + 1 ELSE cLoading
  /\ cLast' = [op |-> op, id |-> "none", cronTime |-> "none",
               returned |-> FALSE, threw |-> FALSE,
               tasks |-> cTasks, entries |-> cEntries]
  /\ UNCHANGED <<coreVars, pubVars, cmVars>>

\* restart(), lines 31-34: stop(), then start(), neither waited for; both run
\* up to their first await before restart returns.
CronRestart(fileExists) ==
  /\ cOps < MaxCronOps
  /\ cOps' = cOps + 1
  /\ cTasks' = LoadCalled(StopLoop(cTasks, 1), <<>>, fileExists).tasks
  /\ cEntries' = LoadCalled(StopLoop(cTasks, 1), <<>>, fileExists).entries
  /\ cLoading' = IF fileExists THEN cLoading + 1 ELSE cLoading
  /\ cLast' = [op |-> "restart", id |-> "none", cronTime |-> "none",
               returned |-> FALSE, threw |-> FALSE,
               tasks |-> cTasks, entries |-> cEntries]
  /\ UNCHANGED <<coreVars, pubVars, cmVars>>

\* fs.readFile settles and a waiting load resumes, lines 66-84: a read or a
\* JSON.parse that fails ends in the catch block; otherwise the entries read
\* are added.
CronLoadResumes(failed, schedules) ==
  /\ cLoading > 0
  /\ cLoading' = cLoading - 1
  /\ cTasks' = IF failed THEN cTasks
               ELSE LoadLoop(cTasks, cEntries, schedules, 1).tasks
  /\ cEntries' = IF failed THEN cEntries
                 ELSE LoadLoop(cTasks, cEntries, schedules, 1).entries
  /\ cLast' = [op |-> "loaded", id |-> "none", cronTime |-> "none",
               returned |-> FALSE, threw |-> FALSE,
               tasks |-> cTasks, entries |-> cEntries]
  /\ UNCHANGED cOps
  /\ UNCHANGED <<coreVars, pubVars, cmVars>>

\* remove(id), lines 125-136.
CronRemove(id) ==
  /\ cOps < MaxCronOps
  /\ cOps' = cOps + 1
  /\ IF ~HasTask(cTasks, id)
     THEN /\ cLast' = [op |-> "remove", id |-> id, cronTime |-> "none", returned |-> FALSE,
                       threw |-> FALSE, tasks |-> cTasks, entries |-> cEntries]
          /\ UNCHANGED <<cTasks, cEntries>>
     ELSE /\ cTasks' = DeleteTask(cTasks, id)
          /\ cEntries' = DeleteEntry(cEntries, id)
          /\ cLast' = [op |-> "remove", id |-> id, cronTime |-> "none", returned |-> TRUE,
                       threw |-> FALSE, tasks |-> cTasks, entries |-> cEntries]
  /\ UNCHANGED cLoading
  /\ UNCHANGED <<coreVars, pubVars, cmVars>>

\* stop(), lines 36-44.
CronStop ==
  /\ cOps < MaxCronOps
  /\ cOps' = cOps + 1
  /\ cTasks' = StopLoop(cTasks, 1)
  /\ cEntries' = <<>>
  /\ cLast' = [op |-> "stop", id |-> "none", cronTime |-> "none",
               returned |-> FALSE, threw |-> FALSE,
               tasks |-> cTasks, entries |-> cEntries]
  /\ UNCHANGED cLoading
  /\ UNCHANGED <<coreVars, pubVars, cmVars>>

\* The state of the application components while another one is explored.
ExtQuiet == PubQuiet /\ CmQuiet /\ InitCron

\* ========================================================= specifications
SocialQuiet ==
  /\ platforms = <<>>
  /\ retryAttempts = DefaultRetryAttempts
  /\ pc = "idle"
  /\ mode = "none"
  /\ cursor = 0
  /\ cur = "none"
  /\ attempt = 0
  /\ results = NoResults
  /\ errors = {}
  /\ successfulPlatforms = <<>>
  /\ failedPlatforms = <<>>
  /\ totalAttempts = 0
  /\ success = FALSE
  /\ singleResult = "none"
  /\ beh = [t \in Platforms |-> NoBehaviour]
  /\ calls = NoCalls
  /\ startNames = {}
  /\ mutated = FALSE
  /\ everOk = FALSE
  /\ muts = 0
  /\ pending = NoCalls
  /\ slept = <<>>
  /\ platformSuccess = NoCalls
  /\ platformError = NoCalls
  /\ completeEvents = <<>>

\* No SocialPlugin is constructed: none of its operations can be called.
SocialOff ==
  /\ platforms = <<>>
  /\ retryAttempts = DefaultRetryAttempts
  /\ pc = "off"
  /\ mode = "none"
  /\ cursor = 0
  /\ cur = "none"
  /\ attempt = 0
  /\ results = NoResults
  /\ errors = {}
  /\ successfulPlatforms = <<>>
  /\ failedPlatforms = <<>>
  /\ totalAttempts = 0
  /\ success = FALSE
  /\ singleResult = "none"
  /\ beh = [t \in Platforms |-> NoBehaviour]
  /\ calls = NoCalls
  /\ startNames = {}
  /\ mutated = FALSE
  /\ everOk = FALSE
  /\ muts = MaxMutations
  /\ pending = NoCalls
  /\ slept = <<>>
  /\ platformSuccess = NoCalls
  /\ platformError = NoCalls
  /\ completeEvents = <<>>

\* SocialPlugin: publish, publishToPlatform and the registry.
Init == InitSocial /\ LlmQuiet /\ HttpQuiet /\ AskQuiet /\ ClsQuiet /\ RegQuiet /\ ValQuiet /\ ExtQuiet

Next ==
  \/ PublishCall
  \/ \E t \in Platforms : PublishToPlatformCall(t)
  \/ AdapterSettles
  \/ CallerResumes
  \/ BackoffElapses
  \/ \E t \in Platforms : AddPlatform(t)
  \/ \E t \in Platforms : RemovePlatform(t)

Spec == Init /\ [][Next]_vars

\* LlmCore.makeRequest on one provider instance.
InitLlmSpec == SocialQuiet /\ InitLlm /\ HttpQuiet /\ AskQuiet /\ ClsQuiet /\ RegQuiet /\ ValQuiet /\ ExtQuiet

NextLlm ==
  \/ \E r \in Requests : LlmMakeRequest(r)
  \/ \E r \in Requests, k \in Responses : LlmResponds(r, k)
  \/ LlmTimerFires

SpecLlm == InitLlmSpec /\ [][NextLlm]_vars

\* SocialCore.makeRequest of one adapter.
InitHttpSpec == SocialQuiet /\ LlmQuiet /\ InitHttp /\ AskQuiet /\ ClsQuiet /\ RegQuiet /\ ValQuiet /\ ExtQuiet

NextHttp ==
  \/ HttpMakeRequest
  \/ \E k \in HttpResponses : HttpResponds(k)
  \/ HttpDelayElapses

SpecHttp == InitHttpSpec /\ [][NextHttp]_vars

\* LlmPlugin.ask and askWithRetry, one call.
InitAskSpec == SocialQuiet /\ LlmQuiet /\ HttpQuiet /\ InitAsk /\ ClsQuiet /\ RegQuiet /\ ValQuiet /\ ExtQuiet

NextAsk ==
  \/ AskCall
  \/ \E max \in 0..MaxAskRetries : AskWithRetryCall(max)
  \/ \E k \in ProviderOutcomes : PrimarySettles(k)
  \/ \E k \in ProviderOutcomes : FallbackSettles(k)
  \/ AskDelayElapses

SpecAsk == InitAskSpec /\ [][NextAsk]_vars

\* The retry loops of both plugins: a run follows either one SocialPlugin call
\* or one LlmPlugin call.
InitLoops == Init \/ (SocialOff /\ LlmQuiet /\ HttpQuiet /\ InitAsk /\ ClsQuiet /\ RegQuiet /\ ValQuiet /\ ExtQuiet)

NextLoops == Next \/ NextAsk

SpecLoops == InitLoops /\ [][NextLoops]_vars

\* LlmCore.createLlmError applied to one raw error.
InitClsSpec == SocialQuiet /\ LlmQuiet /\ HttpQuiet /\ AskQuiet /\ InitCls /\ RegQuiet /\ ValQuiet /\ ExtQuiet

NextCls == CreateLlmError

SpecClassify == InitClsSpec /\ [][NextCls]_vars

\* SocialPlugin: construction and registry management.
InitRegSpec == SocialOff /\ LlmQuiet /\ HttpQuiet /\ AskQuiet /\ ClsQuiet /\ InitReg /\ ValQuiet /\ ExtQuiet

NextReg ==
  \/ Construct
  \/ \E t \in ConfigKeys, kind \in ConfigKinds \ {"absent"} : AddPlatformWith(t, kind)
  \/ \E t \in Platforms : RemovePlatformReturning(t)

SpecRegistry == InitRegSpec /\ [][NextReg]_vars

\* SocialPlugin: construction, validatePost, and a registered adapter's check.
PlatformConfigs == {c \in Configs : \A i \in 1..Len(c) : c[i].name \in Platforms}

InitValSpec ==
  /\ SocialOff /\ LlmQuiet /\ HttpQuiet /\ AskQuiet /\ ClsQuiet
  /\ InitReg /\ rConfig \in PlatformConfigs
  /\ InitVal
  /\ ExtQuiet

NextVal ==
  \/ Construct
  \/ ValidatePostCall
  \/ \E t \in Platforms : AdapterChecksPost(t)

SpecValidate == InitValSpec /\ [][NextVal]_vars

\* The state of the plugins' components while an application component is explored.
CoreQuiet ==
  /\ SocialOff /\ LlmQuiet /\ HttpQuiet /\ AskQuiet /\ ClsQuiet /\ RegQuiet /\ ValQuiet

\* One adapter's publish(post).
InitPubSpec == CoreQuiet /\ InitPub /\ CmQuiet /\ InitCron

NextPub ==
  \/ AdapterPublishCalled
  \/ \E o \in {"ok", "fail", "failNoMessage", "typeError"} : AdapterStageSettles(o)

SpecAdapter == InitPubSpec /\ [][NextPub]_vars

\* ContentManager.publish, called again and again.
InitCmSpec == CoreQuiet /\ PubQuiet /\ InitCm /\ InitCron

NextCm ==
  \/ CmPublishCalled
  \/ \E o \in {"ok", "fail"} : CmTargetSettles(o)
  \/ CmPublishReturns

SpecContent == InitCmSpec /\ [][NextCm]_vars

\* NodeCronPlugin: the calls of its public methods, and the loads resuming.
InitCronSpec == CoreQuiet /\ PubQuiet /\ CmQuiet /\ InitCron

NextCron ==
  \/ \E id \in CronIds, cronTime \in CronTimes : CronAdd(id, cronTime)
  \/ \E id \in CronIds : CronRemove(id)
  \/ CronStop
  \/ \E op \in {"load", "start"}, fileExists \in BOOLEAN : CronLoad(op, fileExists)
  \/ \E fileExists \in BOOLEAN : CronRestart(fileExists)
  \/ \E schedules \in Schedules : CronLoadResumes(FALSE, schedules)
  \/ CronLoadResumes(TRUE, <<>>)

SpecCron == InitCronSpec /\ [][NextCron]_vars

\* =================================================================== claims
PublishDone == mode = "publish" /\ pc = "done"

ResultKeys == {t \in Platforms : results[t] # "none"}

Occurrences(s, x) == Cardinality({i \in 1..Len(s) : s[i] = x})

\* C1: publish never rejects because of target failures: whatever the targets
\* do, the call ends with a PublishResult; when no target succeeded the result
\* has success = FALSE and, the registry not having changed during the call,
\* failedPlatforms lists every registered target.
C1_PublishNeverRejects ==
  /\ (mode = "publish" => pc # "rejected")
  /\ (PublishDone /\ ~everOk =>
        /\ success = FALSE
        /\ (~mutated => Range(failedPlatforms) = startNames))

C1_Witness ==
  /\ PublishDone
  /\ ~everOk
  /\ Cardinality(startNames) >= 2
  /\ Range(failedPlatforms) = startNames
  /\ \E t \in startNames : beh[t].kind = "throwsAlways"
  /\ \E t \in startNames : beh[t].kind = "returnsAlways"

\* C2: success is true iff successfulPlatforms is non-empty, iff some target's
\* dispatch resolved with success = true; with an empty registry it is false.
\* With an unchanged registry that is: iff the results map holds a success.
C2_SuccessIffOneSucceeded ==
  PublishDone =>
    /\ success = (Len(successfulPlatforms) > 0)
    /\ success = everOk
    /\ (~mutated => (success <=> \E t \in Platforms : results[t] = "ok"))
    /\ (startNames = {} /\ ~mutated => success = FALSE)

C2_Witness ==
  /\ PublishDone
  /\ success
  /\ Len(failedPlatforms) > 0
  /\ Len(successfulPlatforms) = 1

\* C3: when the registry is not mutated during the call, the results map has
\* exactly one entry per registered name, each name is exactly once in
\* successfulPlatforms or failedPlatforms and never in both, and the keys of
\* the errors map are the failed platforms.
C3_OneOutcomePerTarget ==
  PublishDone /\ ~mutated =>
    /\ ResultKeys = startNames
    /\ \A t \in startNames :
         Occurrences(successfulPlatforms, t) + Occurrences(failedPlatforms, t) = 1
    /\ Range(successfulPlatforms) \cup Range(failedPlatforms) = startNames
    /\ errors = Range(failedPlatforms)
    /\ \A t \in startNames : results[t] = "ok" <=> t \in Range(successfulPlatforms)

C3_Witness ==
  /\ PublishDone
  /\ ~mutated
  /\ Cardinality(startNames) = 3
  /\ \E t \in startNames : beh[t].kind = "throwsAlways" /\ results[t] = "fail"
  /\ \E t \in startNames : results[t] = "ok"

\* C4: publish dispatches to all registered targets concurrently: while any
\* target's dispatch or backoff is pending, every registered target's first
\* dispatch attempt has already started.
C4_AllTargetsStartTogether ==
  (mode = "publish" /\ pc \in {"dispatch", "backoff"} /\ ~mutated) =>
    \A t \in startNames : calls[t] >= 1

\* C5: a publish call dispatches to exactly the targets registered when it
\* started, whatever addPlatform/removePlatform do while it is suspended, and
\* lists no target twice.
C5_SnapshotAtStart ==
  PublishDone =>
    /\ ResultKeys = startNames
    /\ \A t \in Platforms :
         Occurrences(successfulPlatforms, t) + Occurrences(failedPlatforms, t) <= 1

\* C6: totalAttempts is the number of platform.publish invocations made during
\* the call, retries included.
C6_TotalAttemptsCountsDispatches ==
  PublishDone => totalAttempts = SumOver(calls, Platforms)

\* A target's script succeeds within the retry budget.
SucceedsWithinBudget(t) ==
  \E k \in 1..retryAttempts : AdapterOutcome(beh[t], k) = "ok"

\* C7: a target whose attempt within the retry budget succeeds is reported as
\* successful, whether its failed attempts threw or returned success = false;
\* with A succeeding, B failing terminally and C failing once: success = TRUE,
\* successfulPlatforms = [A, C], failedPlatforms = [B], three outcomes.
C7_RetriedTargetSucceeds ==
  PublishDone /\ ~mutated =>
    /\ \A t \in startNames :
         SucceedsWithinBudget(t) => t \in Range(successfulPlatforms)
    /\ ( /\ platforms = <<"facebook", "instagram", "twitter">>
         /\ retryAttempts >= 2
         /\ beh["facebook"].kind = "ok"
         /\ beh["instagram"].kind \in {"returnsAlways", "throwsAlways"}
         /\ beh["twitter"].kind \in {"returns", "throws"}
         /\ beh["twitter"].failures = 1
         => /\ success
            /\ successfulPlatforms = <<"facebook", "twitter">>
            /\ failedPlatforms = <<"instagram">>
            /\ Cardinality(ResultKeys) = 3 )

\* C8: for retryAttempts = N >= 1 the adapter's publish is invoked at most N
\* times per target per call.
C8_AttemptsWithinCeiling ==
  /\ attempt <= retryAttempts
  /\ (mode = "single" \/ ~mutated => \A t \in Platforms : calls[t] <= retryAttempts)

C8_Witness ==
  /\ pc \in {"done", "rejected"}
  /\ retryAttempts >= 2
  /\ \E t \in Platforms : calls[t] = retryAttempts /\ beh[t].kind = "throwsAlways"

AllServer(h) == \A i \in 1..Len(h) : h[i] = "server"

\* HTTP attempts request r has started: answered ones and those in flight.
LlmAttempts(r) == Len(hist[r]) + inflight[r]

\* C9: with the retry ceiling configured to 3, a request whose backend answers
\* every attempt with a server error makes exactly 3 HTTP attempts and no 4th
\* and fails with retryable = true; a backend that fails twice and then
\* succeeds yields the success after exactly 3 attempts.
C9_ThreeAttemptsAtCeilingThree ==
  maxRetries = 3 =>
    \A r \in Requests :
      /\ AllServer(hist[r]) => LlmAttempts(r) <= 3
      /\ (reqState[r] = "rejected" /\ AllServer(hist[r])
            => settledAt[r] = 3 /\ rejRetryable[r] = TRUE)
      /\ (hist[r] = <<"server", "server", "ok">>
            => reqState[r] = "resolved" /\ settledAt[r] = 3)

\* HTTP attempts the SocialCore.makeRequest call has started.
HttpAttempts == IF hPc = "idle" THEN 0 ELSE hRetryCount + 1

\* C10: a dispatch whose first attempt fails with a non-retryable error (a 4xx
\* status other than 429) is never retried: exactly one attempt is made, by
\* LlmCore.makeRequest and by SocialCore.makeRequest.
C10_NonRetryableNeverRetried ==
  /\ \A r \in Requests :
       (hist[r] # <<>> /\ hist[r][1] = "client" /\ ~IsRetryableError(RawError("client")))
         => LlmAttempts(r) = 1
  /\ (hHist # <<>> /\ hHist[1] = "client") => HttpAttempts = 1


\* ------------------------------------------------------ LlmPlugin claims
AskSettled == aPc \in {"resolved", "rejected"}

\* The number of retryable failures in a history of provider calls.
RetryableFailures(h) == Cardinality({i \in 1..Len(h) : h[i] = "retryable"})

\* C14: ask with a fallback configured: after a retryable failure of the
\* primary the fallback is asked, and when the fallback succeeds ask resolves
\* with the fallback's result and no error is surfaced.
C14_FallbackResultReturned ==
  (aMode = "ask" /\ hasFallback /\ Len(pHist) = 1 /\ pHist[1] = "retryable")
    => \/ aPc = "fallback" /\ fHist = <<>>
       \/ /\ Len(fHist) = 1
          /\ fHist[1] = "ok" => aPc = "resolved" /\ aOutcome = ValueOf("fallback", 1)

C14_Witness ==
  /\ aMode = "ask" /\ hasFallback
  /\ pHist = <<"retryable">> /\ fHist = <<"ok">>
  /\ aPc = "resolved" /\ aOutcome = ValueOf("fallback", 1)

\* C15: ask: when the primary fails with a retryable error and the fallback
\* fails too, ask rejects with the primary's error object, not the fallback's.
C15_PrimaryErrorSurfaced ==
  (aMode = "ask" /\ AskSettled /\ Len(fHist) = 1 /\ fHist[1] # "ok")
    => aPc = "rejected" /\ aOutcome = ErrorOf("primary", 1, "retryable")

C15_Witness ==
  /\ aMode = "ask" /\ aPc = "rejected"
  /\ pHist = <<"retryable">> /\ fHist = <<"retryable">>
  /\ aOutcome.src = "primary"

\* C16: ask: when the primary fails with a non-retryable error, or no fallback
\* is configured, the fallback is never invoked and ask rejects with the
\* primary's error.
C16_NoFallbackOnTerminal ==
  (aMode = "ask" /\ Len(pHist) = 1
     /\ (pHist[1] = "terminal" \/ (pHist[1] = "retryable" /\ ~hasFallback)))
    => /\ fHist = <<>>
       /\ aPc = "rejected"
       /\ aOutcome = ErrorOf("primary", 1, pHist[1])

C16_Witness ==
  /\ aMode = "ask" /\ hasFallback
  /\ pHist = <<"terminal">> /\ fHist = <<>>
  /\ aPc = "rejected" /\ aOutcome = ErrorOf("primary", 1, "terminal")

\* C17 as stated: one ask call, and one askWithRetry call for any maxRetries,
\* invokes the fallback at most once.
C17_FallbackAtMostOnce == Len(fHist) <= 1

\* C17 amended: one ask call invokes the fallback at most once; one
\* askWithRetry call invokes it at most once per ask call it makes, hence at
\* most maxRetries times, and only after a retryable failure of the primary.
C17_FallbackOncePerAsk ==
  /\ Len(fHist) <= RetryableFailures(pHist)
  /\ Len(fHist) <= Len(pHist)
  /\ aMode = "ask" => Len(fHist) <= 1
  /\ aMode = "retry" => Len(fHist) <= aMaxRetries

C17_Witness ==
  /\ aMode = "retry" /\ aMaxRetries = 2 /\ AskSettled
  /\ Len(fHist) = 2

\* C18: for every maxRetries >= 0, askWithRetry resolves with the result of a
\* successful ask or rejects with the classified error of its last ask call;
\* it makes at most maxRetries ask calls, none after a success or after a
\* non-retryable error.
C18_AskWithRetryOutcome ==
  aMode = "retry" =>
    /\ Len(pHist) <= aMaxRetries
    /\ \A i \in 1..Len(pHist) - 1 : pHist[i] = "retryable"
    /\ AskSettled =>
         \/ aPc = "resolved" /\ aOutcome.kind = "value"
         \/ /\ aPc = "rejected"
            /\ aOutcome.kind = "error"
            /\ aOutcome = ErrorOf("primary", Len(pHist), pHist[Len(pHist)])


\* --------------------------------------------------- classification claims
Classified == classified # <<>>

\* C19: the retryable flag of a classified error is true exactly for a status
\* of 500 or more, status 429 and the connection-reset and host-not-found
\* network errors, and false for every other 4xx status.
C19_ClassificationTable ==
  Classified =>
    LET r == classified[1].retryable IN
    /\ rawStatus \in ServerStatuses => r
    /\ rawStatus = 429 => r
    /\ rawCode \in {"ECONNRESET", "ENOTFOUND"} => r
    /\ rawStatus \in (ClientStatuses \ {429}) => ~r
    /\ r => \/ rawStatus \in ServerStatuses
            \/ rawStatus = 429
            \/ rawCode \in {"ECONNRESET", "ENOTFOUND"}

C19_Witness ==
  /\ Classified
  /\ rawStatus = 429
  /\ classified[1].retryable

\* C20: a call that exceeded its timeout is classified as a retryable network
\* error.
C20_TimeoutIsRetryable ==
  (Classified /\ rawCode \in TimeoutCodes) => classified[1].retryable


\* ------------------------------------------------------- retry loop claims
\* The platform.publish calls of the current publishWithRetry sequence that
\* came before the current attempt.
PrevAttempts == (calls[cur] - attempt + 1)..(calls[cur] - 1)

InRetrySequence == pc \in {"dispatch", "backoff", "resuming"}

\* What the caller records for a platform.publish outcome.
Reported(o) == IF o = "throw" THEN "fail" ELSE o

\* publishWithRetry: an attempt is made only after every earlier attempt of
\* the sequence was rejected, a backoff is entered only after a rejected
\* attempt, and the caller is given the outcome of the last attempt made.
FirstSuccessPublish ==
  /\ InRetrySequence => \A j \in PrevAttempts : AdapterOutcome(beh[cur], j) = "throw"
  /\ pc = "backoff" => AdapterOutcome(beh[cur], calls[cur]) = "throw"
  /\ (mode = "single" /\ pc = "done") => singleResult = AdapterOutcome(beh[cur], calls[cur])
  /\ \A t \in Platforms :
       (results[t] # "none" /\ ~(t = cur /\ InRetrySequence))
         => results[t] = Reported(AdapterOutcome(beh[t], calls[t]))

\* LlmPlugin.ask and askWithRetry: a successful provider call is the last call
\* made, the call resolves with its response, and the fallback is not asked
\* for a primary call that succeeded.
FirstSuccessAsk ==
  /\ \A i \in 1..Len(pHist) : pHist[i] = "ok" =>
       /\ i = Len(pHist)
       /\ aPc = "resolved"
       /\ aOutcome = ValueOf("primary", i)
       /\ Len(fHist) < i
  /\ \A i \in 1..Len(fHist) : fHist[i] = "ok" =>
       /\ i = Len(fHist)
       /\ aPc = "resolved"
       /\ aOutcome = ValueOf("fallback", i)
  /\ aMode = "ask" => Len(pHist) <= 1

\* SocialCore.makeRequest: a fetch answered ok is the last fetch issued and
\* the call resolves with it.
FirstSuccessHttp ==
  \A i \in 1..Len(hHist) : hHist[i] = "ok" =>
    /\ i = Len(hHist)
    /\ hPc = "resolved"

\* LlmCore.makeRequest: an HTTP attempt of request r answered ok is the last
\* attempt started for r, and r resolved with it.
FirstSuccessLlm ==
  \A r \in Requests :
    \A i \in 1..Len(hist[r]) : hist[r][i] = "ok" =>
      /\ i = LlmAttempts(r)
      /\ reqState[r] = "resolved"
      /\ settledAt[r] = i

\* C11: every retry loop returns the first success at once: in
\* publishWithRetry, LlmPlugin.ask, askWithRetry, SocialCore.makeRequest and
\* LlmCore.makeRequest, once an attempt succeeds no further attempt is made
\* for that request or target and the caller is given that attempt's result;
\* in LlmPlugin.ask the fallback is not asked when the primary succeeds.
C11_FirstSuccessReturned ==
  /\ FirstSuccessPublish
  /\ FirstSuccessAsk
  /\ FirstSuccessHttp
  /\ FirstSuccessLlm

\* C12: in every retry sequence the k-th delay slept is min(D * 2^(k-1), 10000)
\* with D the base delay, in publishWithRetry, SocialCore.makeRequest and
\* askWithRetry.
C12_ExponentialBackoff ==
  /\ \A k \in 1..Len(hDelays) :
       hDelays[k] = Min(SocialCoreRetryDelay * Pow(2, k - 1), 10000)
  /\ \A k \in 1..Len(slept) :
       slept[k] = Min(DefaultRetryDelay * Pow(2, k - 1), 10000)
  /\ \A k \in 1..Len(aDelays) :
       aDelays[k] = Min(AskBaseDelay * Pow(2, k - 1), 10000)

\* C13: within one target's retry sequence attempt k+1 starts only after
\* attempts 1..k were rejected and k backoff delays have elapsed, and no
\* target ever has more than one platform.publish call pending.
C13_AttemptsStrictlyOrdered ==
  /\ \A t \in Platforms : pending[t] <= 1
  /\ pc = "dispatch" =>
       /\ pending[cur] = 1
       /\ Len(slept) = attempt - 1
       /\ \A j \in PrevAttempts : AdapterOutcome(beh[cur], j) = "throw"

C13_Witness ==
  /\ mode = "publish" /\ pc = "dispatch"
  /\ attempt = 2
  /\ Len(slept) = 1
  /\ pending[cur] = 1


\* ------------------------------------------------- adapter request claims
\* The fetch calls one makeRequest call has issued so far.
FetchesIssued == Len(hHist) + (IF hPc = "fetching" THEN 1 ELSE 0)

\* C21: adapters do not retry internally: one logical HTTP request of an
\* adapter (one makeRequest call) is issued on the network at most once.
C21_RequestIssuedOnce == FetchesIssued <= 1


\* ------------------------------------------------ publishToPlatform claims
\* C26: publishToPlatform of a name that is not registered rejects with the
\* 'not configured' error and invokes no adapter; for a registered name it
\* settles with the outcome of that target's retry sequence (the response of
\* the attempt that resolved, or the rejection of the last attempt allowed)
\* and no other target is dispatched.
C26_SingleTargetDispatch ==
  mode = "single" =>
    /\ \A u \in Platforms \ {cur} : calls[u] = 0
    /\ cur \notin startNames =>
         /\ pc = "rejected"
         /\ singleResult = "notConfigured"
         /\ calls = NoCalls
    /\ cur \in startNames =>
         /\ singleResult # "notConfigured"
         /\ calls[cur] = attempt
         /\ pc = "done" => singleResult = AdapterOutcome(beh[cur], attempt)
                           /\ singleResult \in {"ok", "fail"}
         /\ pc = "rejected" =>
              /\ singleResult = "thrown"
              /\ AdapterOutcome(beh[cur], attempt) = "throw"
              /\ attempt = retryAttempts

C26_Witness ==
  /\ mode = "single" /\ pc = "done"
  /\ attempt = 2
  /\ singleResult = "ok"
  /\ Len(platforms) >= 2


\* ------------------------------------------------------------ event claims
\* C27: when publish has returned, each target whose outcome is successful
\* has had exactly one 'platform:success' event and no 'platform:error'
\* event, and each target whose outcome is failed exactly one
\* 'platform:error' event and no 'platform:success' event, also when its
\* adapter threw on every attempt.
C27_OneEventPerOutcome ==
  PublishDone =>
    \A t \in Platforms :
      /\ results[t] = "ok" => platformSuccess[t] = 1 /\ platformError[t] = 0
      /\ results[t] = "fail" => platformError[t] = 1 /\ platformSuccess[t] = 0
      /\ results[t] = "none" => platformSuccess[t] = 0 /\ platformError[t] = 0

\* C28: 'publish:complete' is emitted exactly once per publish call, when the
\* loop has ended and every target dispatched has its outcome recorded, not
\* before, and it carries the PublishResult that publish returns.
C28_CompleteEmittedOnce ==
  /\ mode # "publish" => completeEvents = <<>>
  /\ mode = "publish" =>
       /\ Len(completeEvents) = (IF pc = "done" THEN 1 ELSE 0)
       /\ pc = "done" =>
            /\ completeEvents[1] =
                 [success |-> success, results |-> results, errors |-> errors,
                  totalAttempts |-> totalAttempts,
                  successfulPlatforms |-> successfulPlatforms,
                  failedPlatforms |-> failedPlatforms]
            /\ \A t \in Platforms : calls[t] > 0 => results[t] # "none"
            /\ \A t \in Range(platforms) : results[t] # "none"
            /\ \A t \in Platforms : pending[t] = 0

C28_Witness ==
  /\ mode = "publish" /\ pc = "done"
  /\ Len(completeEvents) = 1
  /\ Len(completeEvents[1].successfulPlatforms) = 1
  /\ Len(completeEvents[1].failedPlatforms) = 1

\* ----------------------------------------------------------------- C22
\* Occurrences of a name among the keys getConfiguredPlatforms returns.
KeyCount(n) == Cardinality({i \in 1..Len(GetConfiguredPlatforms) :
                              GetConfiguredPlatforms[i] = n})

\* C22: addPlatform under a name that is already registered overwrites the
\* entry: afterwards getConfiguredPlatforms() holds the name exactly once,
\* getPlatform(name) is the adapter just constructed and not the one that was
\* registered before, the only pair a publish call iterates for that name
\* carries the new adapter, and every other entry is as before.
C22_AddOverwrites ==
  (rLast.op = "add" /\ ~rLast.threw /\ MapHas(rLast.before, rLast.name)) =>
    /\ KeyCount(rLast.name) = 1
    /\ GetPlatform(rLast.name) = rCreated[rLast.name]
    /\ GetPlatform(rLast.name) # MapGet(rLast.before, rLast.name)
    /\ \A i \in 1..Len(PublishTargets) :
         PublishTargets[i].name = rLast.name =>
           PublishTargets[i].adapter = rCreated[rLast.name]
    /\ Len(registry) = Len(rLast.before)
    /\ \A i \in 1..Len(registry) :
         registry[i].name # rLast.name => registry[i] = rLast.before[i]

\* An add over a registered name has happened while another target is registered.
C22_Witness ==
  /\ rLast.op = "add" /\ ~rLast.threw
  /\ MapHas(rLast.before, rLast.name)
  /\ Len(registry) >= 2
  /\ GetPlatform(rLast.name) >= 2

\* ----------------------------------------------------------------- C23
\* C23: removePlatform(name) for a name that is not registered returns false
\* and leaves the registry, its names and every adapter, unchanged.
C23_RemoveUnregistered ==
  (rLast.op = "remove" /\ ~MapHas(rLast.before, rLast.name)) =>
    /\ rLast.returned = FALSE
    /\ registry = rLast.before

\* A remove of an unregistered name has happened on a non-empty registry.
C23_Witness ==
  /\ rLast.op = "remove"
  /\ ~MapHas(rLast.before, rLast.name)
  /\ Len(registry) >= 1

\* ----------------------------------------------------------------- C24
\* C24: after any sequence of successful addPlatform / removePlatform calls,
\* isPlatformConfigured(n) is true iff the last operation on n was an add
\* (construction counting as an add), getConfiguredPlatforms() contains n
\* exactly when isPlatformConfigured(n), and removePlatform(n) returns true iff
\* n was registered immediately before.
C24_RegistryTracksLastOperation ==
  rPc = "ready" =>
    /\ \A n \in Platforms :
         /\ IsPlatformConfigured(n) <=> rLastOn[n] = "add"
         /\ (n \in Range(GetConfiguredPlatforms)) <=> IsPlatformConfigured(n)
    /\ rLast.op = "remove" =>
         (rLast.returned <=> MapHas(rLast.before, rLast.name))

\* A target registered at construction has been overwritten and then removed.
C24_Witness ==
  /\ rPc = "ready"
  /\ rLast.op = "remove" /\ rLast.returned
  /\ rCreated[rLast.name] = 2
  /\ ~IsPlatformConfigured(rLast.name)
  /\ Len(registry) >= 1

\* ----------------------------------------------------------------- C25
\* The entry of a key in a configuration, "absent" when the key is missing.
KindOf(cfg, n) ==
  IF \E i \in 1..Len(cfg) : cfg[i].name = n
  THEN cfg[CHOOSE i \in 1..Len(cfg) : cfg[i].name = n].kind
  ELSE "absent"

\* C25: construction of the registry never fails as a whole: entries that are
\* absent are skipped, an entry whose adapter constructor throws is omitted,
\* and every other well-configured target is registered.
C25_ConstructionNeverFails ==
  /\ rPc # "failed"
  /\ (rPc = "ready" /\ rOps = 0) =>
       /\ \A n \in Platforms :
            IsPlatformConfigured(n) <=> KindOf(rConfig, n) = "valid"
       /\ \A i \in 1..Len(registry) : registry[i].name \in Platforms

\* A plugin has been constructed from a configuration with an absent entry, an
\* entry whose constructor throws and a well-configured one.
C25_Witness ==
  /\ rPc = "ready" /\ rOps = 0
  /\ \E i \in 1..Len(rConfig) : rConfig[i].kind = "absent"
  /\ \E i \in 1..Len(rConfig) :
       rConfig[i].kind = "invalid" /\ rConfig[i].name \in Platforms
  /\ \E i \in 1..Len(rConfig) :
       /\ rConfig[i].kind = "valid" /\ IsPlatformConfigured(rConfig[i].name)
       /\ \E j \in 1..(i - 1) : rConfig[j].kind = "invalid"

\* ----------------------------------------------------------------- C29
\* C29: validatePost does not short-circuit: for a post that violates several
\* rules at once the returned errors hold an entry for every violated shared
\* rule (empty content, content too long, too many media) and, for every
\* registered target, the violation that target's validatePost hook throws;
\* valid is true iff errors is empty.
C29_ValidateCollectsEveryViolation ==
  vPc \in {"validated", "checked"} =>
    LET E == Range(vResult.errors)
        c == vPost.content
    IN /\ (~c.present \/ c.len = 0 \/ c.blank) =>
            ErrorEntry("", "Post content cannot be empty") \in E
       /\ (c.present /\ c.len > 5000) =>
            ErrorEntry("", "Post content exceeds maximum length (5000 characters)") \in E
       /\ (vPost.media > 10) =>
            ErrorEntry("", "Too many media files (maximum 10)") \in E
       /\ \A i \in 1..Len(registry) :
            CoreValidatePost(vPost) # <<>> =>
              ErrorEntry(registry[i].name, CoreValidatePost(vPost)[1]) \in E
       /\ vResult.valid <=> vResult.errors = <<>>

\* A post that is blank, too long and carries too many media has been validated
\* with two targets registered.
C29_Witness ==
  /\ vPc = "validated"
  /\ vPost.content.blank /\ vPost.content.len > 5000 /\ vPost.media > 10
  /\ Len(registry) = 2
  /\ Len(vResult.errors) = 5
  /\ ~vResult.valid

\* ----------------------------------------------------------------- C30
\* C30: with a media-requiring target (here Instagram) registered, validatePost
\* of a post without media returns valid = false with a violation attributed to
\* that target; hence a post validatePost accepts is never rejected by a
\* registered adapter's own check of the payload when it is published.
C30_AcceptedPostNeverRejected ==
  /\ (vPc \in {"validated", "checked"} /\ IsPlatformConfigured("instagram")
        /\ vPost.media \in {-1, 0}) =>
       /\ ~vResult.valid
       /\ \E i \in 1..Len(vResult.errors) : vResult.errors[i].target = "instagram"
  /\ (vPc = "checked" /\ vResult.valid) => vPublish.error = <<>>

\* ----------------------------------------------------------------- C31
\* C31: for every post with empty content (missing, the empty string, or only
\* whitespace) and every content of the registry, validatePost returns
\* valid = false and its errors include the content-empty error.
C31_EmptyContentRejected ==
  (vPc \in {"validated", "checked"}
     /\ (~vPost.content.present \/ vPost.content.len = 0 \/ vPost.content.blank)) =>
    /\ ~vResult.valid
    /\ \E i \in 1..Len(vResult.errors) :
         /\ vResult.errors[i].target = ""
         /\ vResult.errors[i].message = "Post content cannot be empty"

\* Whitespace-only content has been validated with a target registered.
C31_Witness ==
  /\ vPc = "validated"
  /\ vPost.content.present /\ vPost.content.len = 1 /\ vPost.content.blank
  /\ Len(registry) >= 1
  /\ ~vResult.valid

\* ----------------------------------------------------------------- C32
\* The messages of the content-too-long error: the shared check's and the
\* hook's.
TooLongMessages == {"Post content exceeds maximum length (5000 characters)",
                    "Post content exceeds maximum length"}

\* C32: validatePost's errors include the content-too-long error iff the
\* content is longer than 5000 characters; a length of exactly 5000 never
\* produces it, neither from the shared check nor from a registered target's
\* hook.
C32_TooLongIffOver5000 ==
  vPc \in {"validated", "checked"} =>
    ((\E i \in 1..Len(vResult.errors) : vResult.errors[i].message \in TooLongMessages)
       <=> (vPost.content.present /\ vPost.content.len > 5000))

\* Non-blank content of exactly 5000 characters has been validated and accepted
\* with a target registered.
C32_Witness ==
  /\ vPc = "validated"
  /\ vPost.content.len = 5000 /\ ~vPost.content.blank
  /\ Len(registry) >= 1
  /\ vPost.media = 10
  /\ vResult.valid

\* ----------------------------------------------------------------- C33
\* C33: validatePost's errors include the too-many-media error iff the media
\* list has more than 10 entries; exactly 10 entries, and an absent media list,
\* never produce it.
C33_TooManyMediaIffOver10 ==
  vPc \in {"validated", "checked"} =>
    ((\E i \in 1..Len(vResult.errors) :
         vResult.errors[i].message = "Too many media files (maximum 10)")
       <=> (vPost.media > 10))

\* A post with 11 media files has been validated and rejected by the shared
\* check and by a registered target's hook.
C33_Witness ==
  /\ vPc = "validated"
  /\ vPost.media = 11
  /\ ~vPost.content.blank /\ vPost.content.len = 1
  /\ Len(vResult.errors) = 2
  /\ vResult.errors[2].target # ""

\* ----------------------------------------------------------------- C34
\* C34: the retry budget is per request: a request issued after every earlier
\* request on the same provider instance has finished starts at attempt number
\* 1 and has the full configured number of retries at its disposal, whatever
\* the earlier requests consumed.
C34_RetryBudgetPerRequest ==
  \A r \in Requests :
    (reqState[r] # "new" /\ reqStart[r].alone) =>
      /\ reqStart[r].attempt = 1
      /\ reqStart[r].retriesLeft = maxRetries

\* ----------------------------------------------------------------- C35
\* Failed answers among the HTTP requests request r has had answered.
LlmFailures(r) == Len(SelectSeq(hist[r], LAMBDA k : k # "ok"))

\* C35: with two calls in flight on the same provider instance, a retry
\* triggered by the failure of one call never re-executes the other call's
\* request (a request is executed once, plus once per failure of its own), and
\* no call's promise is left unsettled once nothing is in flight and no retry
\* timer is pending.
C35_ConcurrentCallsIndependent ==
  /\ \A r \in Requests : LlmAttempts(r) <= 1 + LlmFailures(r)
  /\ (timers = 0 /\ \A r \in Requests : inflight[r] = 0) =>
       \A r \in Requests : reqState[r] # "pending"

\* ----------------------------------------------------------------- C36
\* C36: for each shipped adapter publish(post) never rejects: every failure of
\* the payload checks, of the media upload or of an HTTP step is caught, emitted
\* as one publish:error event, and returned as an outcome with success = false,
\* the message of the error and the adapter's own platform name.
C36_AdapterPublishNeverRejects ==
  /\ ~pResult.rejected
  /\ (pPc = "done" /\ pThrown # <<>>) =>
       /\ pResult.success = FALSE
       /\ pResult.error # <<>>
       /\ pResult.error = pThrown[1].message
       /\ pResult.platform = pAdapter
       /\ pEvents = [success |-> 0, error |-> 1]
  /\ (pPc = "done" /\ pThrown = <<>>) =>
       /\ pResult.success
       /\ pEvents = [success |-> 1, error |-> 0]

\* ----------------------------------------------------------------- C37
\* C37: addPlatform(name, config) whose adapter construction throws (a platform
\* type the factory does not know, or a configuration the constructor rejects)
\* rethrows the error and leaves the registry unchanged: the same names, and an
\* adapter registered under that name before is retained.
C37_FailedAddLeavesRegistry ==
  (rLast.op = "add"
     /\ (rLast.name \notin AvailablePlatforms \/ rLast.kind = "invalid")) =>
    /\ rLast.threw
    /\ GetConfiguredPlatforms = MapKeys(rLast.before)
    /\ \A n \in Platforms : GetPlatform(n) = MapGet(rLast.before, n)

\* An add with a rejected configuration has been made under a registered name,
\* next to another registered target.
C37_Witness ==
  /\ rLast.op = "add" /\ rLast.kind = "invalid" /\ rLast.threw
  /\ MapHas(rLast.before, rLast.name)
  /\ GetPlatform(rLast.name) >= 1
  /\ Len(registry) >= 2

\* ----------------------------------------------------------------- C38
\* The validation results validatePost can give the ContentManager's plugin.
CmValidations == {ValidatePost(CmRegistry, p) : p \in Posts}

\* C38: ContentManager.publish calls SocialPlugin.publish only when validatePost
\* reports the post valid; when validation fails it dispatches nothing and
\* returns success = false with exactly the validation errors; when validation
\* passes, the success flag it returns is true whatever the success of the
\* fan-out result.
C38_PublishOnlyWhenValid ==
  /\ \A v \in CmValidations :
       /\ CmBranch(v).dispatch <=> v.valid
       /\ ~v.valid => CmBranch(v).ret = [success |-> FALSE, messages |-> v.errors]
  /\ \A i \in 1..Len(cmReturns) :
       /\ cmReturns[i].dispatches = 1 <=> ValidatePost(CmRegistry, CmPost).valid
       /\ cmReturns[i].dispatches = 1 =>
            cmReturns[i].ret = [success |-> TRUE, messages |-> <<>>]
  /\ cmPc = "publishing" => ValidatePost(CmRegistry, CmPost).valid

\* A publish whose fan-out failed on every target has returned success = true,
\* after one whose fan-out succeeded.
C38_Witness ==
  /\ Len(cmReturns) = 2
  /\ cmReturns[1].fanOut /\ cmReturns[1].ret.success
  /\ ~cmReturns[2].fanOut /\ cmReturns[2].ret.success
  /\ cmReturns[2].dispatches = 1

\* ----------------------------------------------------------------- C39
\* The ids a Map of entries holds, in order.
EntryIds(entries) == [i \in 1..Len(entries) |-> entries[i].id]

\* C39: in NodeCronPlugin, after any sequence of add, remove and stop calls the
\* tasks map and the entries map hold the same ids with at most one job per
\* id; add with an id that exists returns false and changes neither map, add
\* with an invalid cron expression throws and changes neither map, remove of an
\* unknown id returns false and changes neither map, and stop leaves both maps
\* empty.
C39_TasksAndEntriesAgree ==
  /\ Range(cTasks) = Range(EntryIds(cEntries))
  /\ Cardinality(Range(cTasks)) = Len(cTasks)
  /\ Len(cEntries) = Len(cTasks)
  /\ (cLast.op = "add" /\ cLast.id \in Range(cLast.tasks)) =>
       ~cLast.returned /\ cTasks = cLast.tasks /\ cEntries = cLast.entries
  /\ (cLast.op = "add" /\ cLast.id \notin Range(cLast.tasks)
        /\ cLast.cronTime = "every day") =>
       cLast.threw /\ cTasks = cLast.tasks /\ cEntries = cLast.entries
  /\ (cLast.op = "remove" /\ cLast.id \notin Range(cLast.tasks)) =>
       ~cLast.returned /\ cTasks = cLast.tasks /\ cEntries = cLast.entries
  /\ cLast.op = "stop" => cTasks = <<>> /\ cEntries = <<>>

\* stop has been called with two jobs scheduled.
C39_Witness ==
  /\ cLast.op = "stop"
  /\ Len(cLast.tasks) = 2 /\ Len(cLast.entries) = 2
  /\ cTasks = <<>>

====
